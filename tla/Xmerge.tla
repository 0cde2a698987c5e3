------------------------------- MODULE Xmerge -------------------------------
(***************************************************************************)
(* The xmerge system call (ASS4/xmerge.c) and its test program: the        *)
(* contents of the input files are appended one after the other to the     *)
(* output file; the number of bytes is returned and the number of files    *)
(* stored through ofile_count.                                             *)
(*                                                                         *)
(* A file is its length.  Every call the system call makes can fail; a     *)
(* write can be short, and the disk has room for MaxLen bytes per file.    *)
(* Input files may grow while they are read, and the output file may be    *)
(* one of them.  bytecount is an int.                                      *)
(***************************************************************************)
EXTENDS Integers, Sequences, SequencesExt

CONSTANTS
    OutFile, InFile,   \* file names; OutFile may also be given as an input
    MaxFiles,          \* bound on the number of inputs
    MaxLen,            \* room on the disk for one file
    PAGE_SIZE,         \* bytes per read
    INT_MAX            \* 2^31 - 1, scaled down

ASSUME MergeAssumption ==
    /\ {MaxFiles, MaxLen, PAGE_SIZE, INT_MAX} \subseteq Nat \ {0}
    /\ OutFile \notin InFile

File == InFile \cup {OutFile}
Option == {"APPEND", "CREAT", "TRUNC", "EXCL"}
ERR == -1                      \* any negative error code
EOF == 0

VARIABLES
    pc,
    infiles, oflags,           \* struct xmerge_params
    len,                       \* per file: its length, or -1 if it does not exist
    x,                         \* index of the current input
    outpos, inpos,             \* file positions
    open,                      \* the descriptors that are open: subset of {"out", "in"}
    fs,                        \* the address limit
    read,                      \* bytes in buffer
    bytecount, filecount,
    ofile_count,               \* *xp.ofile_count
    result,
    total,                     \* history: bytes read in all, unbounded
    written,                   \* history: bytes written in all
    faults                     \* history: what went wrong

fileVars == <<len, outpos, inpos>>
params == <<infiles, oflags>>
counts == <<bytecount, filecount, ofile_count>>
history == <<total, written, faults>>
vars == <<pc, params, fileVars, x, open, fs, read, counts, result, history>>

\* Conversion to int.
ToInt(n) == ((n + INT_MAX + 1) % (2 * (INT_MAX + 1))) - (INT_MAX + 1)

\* test_xmerge: any combination of the options; without one, create and append.
OFlags(opts) == IF opts = {} THEN {"CREAT", "APPEND"} ELSE opts

Init ==
    /\ pc = "main"
    /\ infiles \in SeqOf(File, MaxFiles)
    /\ oflags \in {OFlags(opts) : opts \in SUBSET Option}
    /\ len \in [File -> {-1, 0, MaxLen - 1}]
    /\ x = 1 /\ outpos = 0 /\ inpos = 0
    /\ open = {} /\ fs = "USER_DS" /\ read = 0
    /\ bytecount = 0 /\ filecount = 0 /\ ofile_count = 0
    /\ result = 0
    /\ total = 0 /\ written = 0 /\ faults = {}

\* set_fs(old_fs) and return n, after the descriptors in s have been closed.
Return(n, s) ==
    /\ result' = n /\ pc' = "done"
    /\ open' = open \ s
    /\ fs' = "USER_DS"

Fault(f) == faults' = faults \cup {f}

-----------------------------------------------------------------------------
\* The call: set_fs(get_ds()), and the parameters are copied.
xmerge ==
    /\ pc = "main"
    /\ \/ /\ pc' = "open" /\ fs' = "KERNEL_DS"
          /\ UNCHANGED <<open, result, faults>>
       \/ Return(ERR, {}) /\ Fault("failed")
    /\ UNCHANGED <<params, fileVars, x, read, counts, total, written>>

\* ksys_open of the output file.
open_out ==
    LET exists == len[OutFile] >= 0
        ok == (exists /\ ~{"CREAT", "EXCL"} \subseteq oflags) \/ (~exists /\ "CREAT" \in oflags)
    IN  /\ pc = "open"
        /\ \/ /\ ok
              /\ pc' = "next" /\ open' = {"out"}
              /\ len' = [len EXCEPT ![OutFile] = IF exists /\ "TRUNC" \notin oflags THEN @ ELSE 0]
              /\ UNCHANGED <<fs, result, faults>>
           \/ Return(ERR, {}) /\ Fault("failed") /\ UNCHANGED len
        /\ UNCHANGED <<params, outpos, inpos, x, read, counts, total, written>>

\* The name of the next input is copied and the file is opened; after the last
\* one the call returns.
open_in ==
    /\ pc = "next"
    /\ IF x > Len(infiles)
       THEN Return(bytecount, {"out"}) /\ UNCHANGED <<inpos, faults>>
       ELSE \/ /\ len[infiles[x]] >= 0
               /\ pc' = "read" /\ open' = {"out", "in"} /\ inpos' = 0
               /\ UNCHANGED <<fs, result, faults>>
            \/ Return(ERR, {"out"}) /\ Fault("failed") /\ UNCHANGED inpos
    /\ UNCHANGED <<params, len, outpos, x, read, counts, total, written>>

\* Faulty variant: the count assumes full pages.
CountRead_Page(n) == ToInt(bytecount + PAGE_SIZE)

\* bytecount += (long)read
CountRead(n) == ToInt(bytecount + n)

Available == len[infiles[x]] - inpos
Smaller(a, b) == IF a < b THEN a ELSE b

\* ksys_read of up to a page, and the count.
read_in ==
    LET n == Smaller(PAGE_SIZE, Available) IN
    /\ pc = "read"
    /\ \/ /\ n > 0
          /\ read' = n /\ inpos' = inpos + n
          /\ bytecount' = CountRead(n) /\ total' = total + n
          /\ pc' = "write"
          /\ UNCHANGED <<open, fs, result, faults>>
       \/ /\ n <= EOF
          /\ pc' = "end"
          /\ UNCHANGED <<read, inpos, bytecount, total, open, fs, result, faults>>
       \/ /\ Return(ERR, {"out", "in"}) /\ Fault("failed")
          /\ UNCHANGED <<read, inpos, bytecount, total>>
    /\ UNCHANGED <<params, len, outpos, x, filecount, ofile_count, written>>

\* Faulty variant: an error leaves the input open.
WriteFailed_LeaksIn == Return(ERR, {"out"})

WriteFailed == Return(ERR, {"out", "in"})

\* ksys_write: all of it, a part (which goes unnoticed), or an error.
write_out ==
    LET at == IF "APPEND" \in oflags THEN len[OutFile] ELSE outpos
        room == MaxLen - at
    IN  /\ pc = "write"
        /\ \/ \E n \in 1 .. Smaller(read, room) :
                 /\ len' = [len EXCEPT ![OutFile] = IF at + n > @ THEN at + n ELSE @]
                 /\ outpos' = at + n /\ written' = written + n
                 /\ pc' = "read"
                 /\ IF n < read THEN Fault("short") ELSE UNCHANGED faults
                 /\ UNCHANGED <<open, fs, result>>
           \/ WriteFailed /\ Fault("failed") /\ UNCHANGED <<len, outpos, written>>
        /\ UNCHANGED <<params, inpos, x, read, counts, total>>

\* filecount++ and copy_to_user, whose failure is a positive number that the
\* test for a negative one misses.
file_end ==
    /\ pc = "end"
    /\ filecount' = filecount + 1
    /\ \/ ofile_count' = filecount + 1 /\ UNCHANGED faults
       \/ Fault("lost") /\ UNCHANGED ofile_count
    /\ open' = {"out"} /\ x' = x + 1 /\ pc' = "next"
    /\ UNCHANGED <<params, fileVars, fs, read, bytecount, result, total, written>>

\* Somebody else appends to an input file.
input_grows(f) ==
    /\ pc # "done" /\ len[f] \in 0 .. MaxLen - 1
    /\ len' = [len EXCEPT ![f] = @ + 1]
    /\ UNCHANGED <<pc, params, outpos, inpos, x, open, fs, read, counts, result, history>>

Next ==
    \/ xmerge \/ open_out \/ open_in \/ read_in \/ write_out \/ file_end
    \/ \E f \in InFile : input_grows(f)

Spec == Init /\ [][Next]_vars
FairSpec == Spec /\ WF_vars(xmerge \/ open_out \/ open_in \/ read_in \/ write_out \/ file_end)

-----------------------------------------------------------------------------
\* On every path out of the system call both descriptors are closed and the
\* address limit is back; and the call does return: even when the output file
\* is appended to itself, the loop ends with the disk.
ReturnsClean == <>[](pc = "done" /\ open = {} /\ fs = "USER_DS")

\* What test_xmerge prints.  A result that is not negative means that no call
\* failed, and counts the bytes read, as long as they fit an int; they are the
\* bytes written, unless a write was short.  ofile_count counts the inputs that
\* were read to their end, unless it could not be stored.
ResultHonest ==
    pc = "done" =>
        /\ total <= INT_MAX => (result >= 0 <=> "failed" \notin faults)
        /\ "failed" \notin faults /\ total <= INT_MAX => result = total
        /\ faults \cap {"short", "failed"} = {} => written = total
        /\ "failed" \notin faults => filecount = Len(infiles)
        /\ "lost" \notin faults => ofile_count = x - 1
=============================================================================
