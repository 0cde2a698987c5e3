----------------------------- MODULE RateLimit -----------------------------
(***************************************************************************)
(* The netfilter hook of ASS6/rate_limit.c.  A TCP connection may send     *)
(* `threshold' bytes freely; after that a packet is dropped while more     *)
(* than `rate' bytes per millisecond have been accepted since the last     *)
(* free packet.  The per-connection counters live in a table indexed by a  *)
(* hash; a slot keeps the key of the first connection that used it and is  *)
(* shared by all that hash to it, until a FIN packet clears it.            *)
(*                                                                         *)
(* The hook runs in softirq context on every CPU at once and takes no      *)
(* lock: a CPU reads the counters, decides, and stores each one back in a  *)
(* step of its own (hook[k] is where CPU k is).  Counts keep their width:  *)
(* byte_count is an unsigned int, byte and the difference of the two are   *)
(* unsigned longs.                                                         *)
(***************************************************************************)
EXTENDS Integers, FiniteSets

CONSTANTS
    Cpu,               \* CPUs that run the hook
    Conn,              \* connections <<saddr, daddr, sport, dport>>
    FLOW_TABLE_SIZE,
    threshold, rate,   \* the module parameters
    HZ,                \* ticks per second
    PayloadLen,        \* payload lengths of packets
    UINT, ULONG,       \* 2^32 and 2^64, scaled down
    MaxTime,           \* bound on jiffies
    MaxPackets         \* bound on the packets seen

Jiffy == 1 .. MaxTime
NoKey == <<0, 0, 0, 0>>

ASSUME RateAssumption ==
    /\ {threshold, rate, HZ, FLOW_TABLE_SIZE, UINT, ULONG} \subseteq Nat \ {0}
    /\ PayloadLen \subseteq Nat /\ \E x \in PayloadLen : \A y \in PayloadLen : y <= x
    /\ MaxTime \in Nat \ {0} /\ MaxPackets \in Nat
    /\ ULONG >= UINT
    /\ \A c \in Conn : c \in Nat \X Nat \X Nat \X Nat

VARIABLES
    jiffies,
    flow_table,     \* per slot: key, byte_count, byte, time
    hook,           \* per CPU: the invocation of rate_limit it is in
    packets,        \* packets seen so far
    accepted,       \* history, per slot: bytes accepted since the last reset
    born,           \* history, per slot: when the first of them was (or 0)
    wrapped,        \* history: slots whose byte_count has overflowed since
    overlapped,     \* history: slots two CPUs were in at the same time since
    revived         \* history: slots that were reset while another CPU was inside

history == <<accepted, born, wrapped, overlapped, revived>>
vars == <<jiffies, flow_table, hook, packets, history>>

Slot == 0 .. FLOW_TABLE_SIZE - 1

hash(c) ==
    LET part(i) == (c[i] % FLOW_TABLE_SIZE) + 1
    IN  (part(1) * part(2) * part(3) * part(4)) % FLOW_TABLE_SIZE

\* Faulty variant: the free bytes survive the reset.
reset_flow_KeepsByte(f) == [key |-> NoKey, byte_count |-> 0, byte |-> f.byte, time |-> jiffies]

reset_flow(f) == [key |-> NoKey, byte_count |-> 0, byte |-> 0, time |-> jiffies]

\* A CPU that is not in the hook.
Idle == [pc |-> "idle", slot |-> 0, len |-> 0, fin |-> FALSE, ret |-> "ACCEPT", free |-> FALSE, loaded |-> 0]

\* get_flow: the key is stored in an empty slot and never looked at again.
get_flow(c) == [flow_table EXCEPT ![hash(c)].key = IF @ = NoKey THEN c ELSE @]

Inside(s) == {k \in Cpu : hook[k].pc # "idle" /\ hook[k].slot = s}

Init ==
    /\ jiffies = 1
    /\ flow_table = [s \in Slot |-> [key |-> NoKey, byte_count |-> 0, byte |-> 0, time |-> 1]]
    /\ hook = [k \in Cpu |-> Idle]
    /\ packets = 0
    /\ accepted = [s \in Slot |-> 0] /\ born = [s \in Slot |-> 0]
    /\ wrapped = {} /\ overlapped = {} /\ revived = {}

-----------------------------------------------------------------------------
\* The hook is called for a packet of c: find the flow.  (start and the
\* packet and drop counts are only printed, and left out.)  A packet without
\* payload is accepted at once.
rate_limit(k, c, len, fin) ==
    LET s == hash(c) IN
    /\ hook[k].pc = "idle" /\ packets < MaxPackets
    /\ packets' = packets + 1
    /\ flow_table' = get_flow(c)
    /\ hook' = [hook EXCEPT ![k] = [pc |-> IF len = 0 THEN "out" ELSE "check", slot |-> s, len |-> len,
                                    fin |-> fin, ret |-> "ACCEPT", free |-> FALSE, loaded |-> 0]]
    /\ overlapped' = IF Inside(s) # {} THEN overlapped \cup {s} ELSE overlapped
    /\ UNCHANGED <<jiffies, accepted, born, wrapped, revived>>

\* Faulty variant: the milliseconds are not divided by HZ.
Exceeded_NoHZ(f) == (f.byte_count - f.byte) % ULONG > (jiffies - f.time) * 1000 * rate

\* byte_count - byte > delta * rate, in unsigned longs.
Exceeded(f) == (f.byte_count - f.byte) % ULONG > (((jiffies - f.time) * 1000) \div HZ) * rate

\* The decision.  byte_count has been loaded for the addition that follows.
decide(k) ==
    LET o == hook[k]
        f == flow_table[o.slot]
        free == f.byte_count < threshold
        drop == ~free /\ Exceeded(f)
    IN  /\ o.pc = "check"
        /\ hook' = [hook EXCEPT ![k] =
              [pc |-> IF drop THEN "out" ELSE "count", slot |-> o.slot, len |-> o.len, fin |-> o.fin,
               ret |-> IF drop THEN "DROP" ELSE "ACCEPT", free |-> free, loaded |-> f.byte_count]]
        /\ UNCHANGED <<jiffies, flow_table, packets, history>>

\* Faulty variant: the count is kept in a wider integer than it is declared as.
Add_Wide(x, len) == x + len

Add(x, len) == (x + len) % UINT

\* byte_count += payload_len is stored, and time; byte is loaded.
count(k) ==
    LET o == hook[k]
        f == flow_table[o.slot]
    IN  /\ o.pc = "count"
        /\ flow_table' = [flow_table EXCEPT ![o.slot] =
              [key |-> f.key, byte_count |-> Add(o.loaded, o.len), byte |-> f.byte,
               time |-> IF o.free THEN jiffies ELSE f.time]]
        /\ hook' = [hook EXCEPT ![k] =
              [pc |-> IF o.free THEN "countfree" ELSE "out", slot |-> o.slot, len |-> o.len, fin |-> o.fin,
               ret |-> "ACCEPT", free |-> o.free, loaded |-> f.byte]]
        /\ accepted' = [accepted EXCEPT ![o.slot] = @ + o.len]
        /\ born' = [born EXCEPT ![o.slot] = IF @ = 0 THEN jiffies ELSE @]
        /\ wrapped' = IF o.loaded + o.len >= UINT THEN wrapped \cup {o.slot} ELSE wrapped
        /\ UNCHANGED <<jiffies, packets, overlapped, revived>>

\* byte += payload_len is stored.
count_free(k) ==
    LET o == hook[k] IN
    /\ o.pc = "countfree"
    /\ flow_table' = [flow_table EXCEPT ![o.slot].byte = (o.loaded + o.len) % ULONG]
    /\ hook' = [hook EXCEPT ![k] = [o EXCEPT !.pc = "out"]]
    /\ UNCHANGED <<jiffies, packets, history>>

\* out: a FIN resets the flow.  What two CPUs did to it together is forgotten
\* with it, unless another one is still inside.
out(k) ==
    LET o == hook[k]
        s == o.slot
    IN  /\ o.pc = "out"
        /\ hook' = [hook EXCEPT ![k] = Idle]
        /\ IF o.fin
           THEN /\ flow_table' = [flow_table EXCEPT ![s] = reset_flow(@)]
                /\ accepted' = [accepted EXCEPT ![s] = 0] /\ born' = [born EXCEPT ![s] = 0]
                /\ IF Inside(s) = {k}
                   THEN /\ wrapped' = wrapped \ {s} /\ overlapped' = overlapped \ {s}
                        /\ revived' = revived \ {s}
                   ELSE revived' = revived \cup {s} /\ UNCHANGED <<wrapped, overlapped>>
           ELSE UNCHANGED <<flow_table, history>>
        /\ UNCHANGED <<jiffies, packets>>

tick ==
    /\ jiffies < MaxTime
    /\ jiffies' = jiffies + 1
    /\ UNCHANGED <<flow_table, hook, packets, history>>

Next ==
    \/ \E k \in Cpu, c \in Conn, len \in PayloadLen, fin \in BOOLEAN : rate_limit(k, c, len, fin)
    \/ \E k \in Cpu : decide(k) \/ count(k) \/ count_free(k) \/ out(k)
    \/ tick

Spec == Init /\ [][Next]_vars

-----------------------------------------------------------------------------
MaxLen == CHOOSE x \in PayloadLen : \A y \in PayloadLen : y <= x

\* What the rate allows in d ticks, and a slot in the time since its first
\* accepted byte.
Grant(d) == ((d * 1000) \div HZ) * rate
Allowance(s) == IF born[s] = 0 THEN 0 ELSE Grant(jiffies - born[s])

Flow == [key : Conn \cup {NoKey}, byte_count : 0 .. UINT - 1, byte : 0 .. ULONG - 1, time : Jiffy]
Call == [pc : {"idle", "check", "count", "countfree", "out"}, slot : Slot, len : PayloadLen \cup {0},
         fin : BOOLEAN, ret : {"ACCEPT", "DROP"}, free : BOOLEAN, loaded : 0 .. ULONG - 1]

\* Type correctness: counters stay in their width.
TypeOK ==
    /\ jiffies \in Jiffy /\ packets \in 0 .. MaxPackets
    /\ flow_table \in [Slot -> Flow]
    /\ hook \in [Cpu -> Call]
    /\ accepted \in [Slot -> Nat] /\ born \in [Slot -> Jiffy \cup {0}]
    /\ wrapped \subseteq Slot /\ overlapped \subseteq Slot /\ revived \subseteq overlapped

\* "Threshhold before rate limit" and "Limited rate": the bytes a slot has let
\* through since its last reset exceed the threshold and what the rate earned
\* since the first of them by at most one packet each, as long as one CPU at a
\* time served the slot.  When several did, an update that is lost only favours
\* the sender: the slot has let through all that byte_count says.  Only a CPU
\* that was inside when another reset the slot brings an older count back.
RateBound ==
    \A s \in Slot :
        /\ s \notin wrapped \cup overlapped => accepted[s] < threshold + 2 * MaxLen + Allowance(s)
        /\ s \notin revived => flow_table[s].byte_count <= accepted[s]

\* A packet is dropped only if more than the rate allows has been counted
\* beyond the free bytes.  The two exceptions: byte_count has wrapped around
\* its 32 bits (byte has not), or one CPU has overwritten another's count; the
\* difference of the two is then a huge unsigned number.
DropJustified ==
    [][\A k \in Cpu : hook[k].pc = "check" /\ hook'[k].ret = "DROP" =>
          LET f == flow_table[hook[k].slot] IN
          \/ f.byte_count - f.byte > Grant(jiffies - f.time)
          \/ hook[k].slot \in wrapped \cup overlapped]_vars
=============================================================================
