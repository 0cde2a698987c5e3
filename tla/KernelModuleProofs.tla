------------------------- MODULE KernelModuleProofs -------------------------
(***************************************************************************)
(* The two loadable kernel modules.                                        *)
(*                                                                         *)
(* The rate limiter of ASS6: TypeOK, RateBound and DropJustified of        *)
(* RateLimit, for any number of CPUs, connections and slots, and every     *)
(* threshold, rate, HZ and width.  The system call of ASS4: ResultHonest   *)
(* of Xmerge, and that nothing is left open on return, for every number    *)
(* and length of input files, every page size and every width of int.      *)
(***************************************************************************)
EXTENDS RateLimit, Sequences, TLAPS

-----------------------------------------------------------------------------
\* The inductive invariant.

\* One CPU at a time has been in slot s since its last reset, and byte_count
\* has not overflowed.
Solo(s) == s \notin wrapped \cup overlapped

Timely == \A s \in Slot : flow_table[s].time <= jiffies /\ born[s] <= jiffies

InHook ==
    \A k \in Cpu : /\ hook[k].pc # "idle" => hook[k].len \in PayloadLen
                   /\ hook[k].pc = "check" => hook[k].ret = "ACCEPT"

Alone == \A s \in Slot \ overlapped : \A j, k \in Inside(s) : j = k

\* A slot's counters: byte_count has every accepted byte, byte the free ones.
SlotOK(s) ==
    LET f == flow_table[s] IN
    /\ accepted[s] = f.byte_count
    /\ f.byte <= f.byte_count
    /\ f.byte < threshold + MaxLen
    /\ f.byte_count < threshold + 2 * MaxLen + Allowance(s)
    /\ IF born[s] = 0 THEN f.byte_count = 0 ELSE born[s] <= f.time

\* What CPU k has loaded is still in the table, and so is the reason for which
\* it accepts the packet.
CallOK(k) ==
    LET o == hook[k]
        f == flow_table[o.slot]
    IN  /\ o.pc = "count" =>
              /\ o.loaded = f.byte_count
              /\ IF o.free THEN o.loaded < threshold
                 ELSE o.loaded >= threshold /\ o.loaded - f.byte <= Grant(jiffies - f.time)
        /\ o.pc = "countfree" =>
              o.loaded = f.byte /\ o.loaded + o.len <= f.byte_count /\ o.loaded < threshold

Counted == \A s \in Slot : Solo(s) => SlotOK(s)
Serving == \A k \in Cpu : Solo(hook[k].slot) => CallOK(k)

\* Without a reset in between, nobody has loaded more than was accepted.
Favoured ==
    /\ \A s \in Slot \ revived : flow_table[s].byte_count <= accepted[s]
    /\ \A k \in Cpu : hook[k].pc = "count" /\ hook[k].slot \notin revived =>
          hook[k].loaded <= accepted[hook[k].slot]

IInv == TypeOK /\ Timely /\ InHook /\ Alone /\ Counted /\ Serving /\ Favoured

-----------------------------------------------------------------------------
\* Arithmetic.

LEMMA ConstantTypes ==
    /\ threshold \in Nat /\ threshold > 0 /\ rate \in Nat /\ HZ \in Nat \ {0}
    /\ UINT \in Nat /\ UINT > 0 /\ ULONG \in Nat /\ UINT <= ULONG
    /\ FLOW_TABLE_SIZE \in Nat \ {0} /\ MaxTime \in Nat /\ MaxTime > 0 /\ MaxPackets \in Nat
    /\ PayloadLen \subseteq Nat
  BY RateAssumption DEF RateAssumption

\* A longer time grants no less.
LEMMA QuotientGrows ==
    ASSUME NEW a \in Nat, NEW b \in Nat, a <= b, NEW n \in Nat \ {0}
    PROVE  a \div n \in Nat /\ b \div n \in Nat /\ a \div n <= b \div n
  BY SMT

LEMMA ProductGrows ==
    ASSUME NEW a \in Nat, NEW b \in Nat, a <= b, NEW n \in Nat
    PROVE  a * n \in Nat /\ b * n \in Nat /\ a * n <= b * n
  BY SMT

LEMMA GrantGrows ==
    ASSUME NEW d \in Nat, NEW e \in Nat, d <= e
    PROVE  Grant(d) \in Nat /\ Grant(e) \in Nat /\ Grant(d) <= Grant(e)
<1>1. d * 1000 \in Nat /\ e * 1000 \in Nat /\ d * 1000 <= e * 1000
  BY SMT
<1>2. /\ (d * 1000) \div HZ \in Nat /\ (e * 1000) \div HZ \in Nat
      /\ (d * 1000) \div HZ <= (e * 1000) \div HZ
  BY <1>1, ConstantTypes, QuotientGrows
<1> QED BY <1>2, ConstantTypes, ProductGrows DEF Grant

LEMMA LongestPacket == MaxLen \in Nat /\ \A n \in PayloadLen : n \in Nat /\ n <= MaxLen
<1>1. \E x \in PayloadLen : \A y \in PayloadLen : y <= x
  BY RateAssumption, Zenon DEF RateAssumption
<1>2. MaxLen \in PayloadLen /\ \A y \in PayloadLen : y <= MaxLen
  BY <1>1, Zenon DEF MaxLen
<1> QED BY <1>2, ConstantTypes

LEMMA HashInTable == ASSUME NEW c \in Conn PROVE hash(c) \in Slot
<1>1. c \in Nat \X Nat \X Nat \X Nat
  BY RateAssumption, Zenon DEF RateAssumption
<1> DEFINE part(i) == (c[i] % FLOW_TABLE_SIZE) + 1
<1>2. part(1) \in Nat /\ part(2) \in Nat /\ part(3) \in Nat /\ part(4) \in Nat
  BY <1>1, ConstantTypes
<1> DEFINE product == part(1) * part(2) * part(3) * part(4)
<1>3. hash(c) = product % FLOW_TABLE_SIZE
  BY Zenon DEF hash
<1> HIDE DEF part
<1>4. product \in Nat
  BY <1>2
<1> HIDE DEF product
<1> QED BY <1>3, <1>4, ConstantTypes DEF Slot

LEMMA InitInv == Init => IInv
<1> SUFFICES ASSUME Init PROVE IInv
  OBVIOUS
<1>1. 0 \in Slot /\ 1 \in Jiffy /\ 0 \in 0 .. UINT - 1 /\ 0 \in 0 .. ULONG - 1 /\ 0 \in 0 .. MaxPackets
  BY ConstantTypes DEF Slot, Jiffy
<1>2. Idle \in Call
  BY <1>1 DEF Idle, Call
<1>3. [key |-> NoKey, byte_count |-> 0, byte |-> 0, time |-> 1] \in Flow
  BY <1>1 DEF Flow
<1>4. TypeOK
  BY <1>1, <1>2, <1>3 DEF Init, TypeOK
<1>5. Timely /\ InHook /\ Alone
  BY DEF Init, Timely, InHook, Alone, Inside, Idle
<1>6. Counted
  BY ConstantTypes, LongestPacket DEF Init, Counted, SlotOK, Allowance
<1>7. Serving /\ Favoured
  BY DEF Init, Serving, CallOK, Favoured, Idle
<1> QED BY <1>4, <1>5, <1>6, <1>7 DEF IInv

-----------------------------------------------------------------------------
\* What a step that leaves a slot, or a CPU, alone keeps.

LEMMA SlotTypes ==
    ASSUME TypeOK, NEW s \in Slot
    PROVE  /\ flow_table[s] = [key |-> flow_table[s].key, byte_count |-> flow_table[s].byte_count,
                               byte |-> flow_table[s].byte, time |-> flow_table[s].time]
           /\ flow_table[s].key \in Conn \cup {NoKey}
           /\ flow_table[s].byte_count \in Nat /\ flow_table[s].byte_count < UINT
           /\ flow_table[s].byte \in Nat /\ flow_table[s].byte < ULONG
           /\ flow_table[s].time \in Jiffy /\ flow_table[s].time \in Nat
           /\ accepted[s] \in Nat /\ born[s] \in Nat /\ jiffies \in Nat /\ jiffies > 0
<1>1. flow_table[s] \in Flow /\ accepted[s] \in Nat /\ born[s] \in Jiffy \cup {0} /\ jiffies \in Jiffy
  BY Zenon DEF TypeOK
<1>2. born[s] \in Nat /\ jiffies \in Nat /\ jiffies > 0
  BY <1>1, ConstantTypes DEF Jiffy
<1> QED BY <1>1, <1>2, ConstantTypes DEF Flow, Jiffy

LEMMA CallTypes ==
    ASSUME TypeOK, NEW k \in Cpu
    PROVE  /\ hook[k].slot \in Slot /\ hook[k].fin \in BOOLEAN /\ hook[k].free \in BOOLEAN
           /\ hook[k].len \in PayloadLen \cup {0} /\ hook[k].len \in Nat
           /\ hook[k].loaded \in Nat
<1>1. hook[k] \in Call
  BY Zenon DEF TypeOK
<1>2. /\ hook[k].slot \in Slot /\ hook[k].fin \in BOOLEAN /\ hook[k].free \in BOOLEAN
      /\ hook[k].len \in PayloadLen \cup {0} /\ hook[k].loaded \in 0 .. ULONG - 1
  BY <1>1, Zenon DEF Call
<1>3. hook[k].len \in Nat
  <2>1. \A n \in PayloadLen \cup {0} : n \in Nat
    BY ConstantTypes
  <2> QED BY <1>2, <2>1, Zenon
<1>4. hook[k].loaded \in Nat
  <2>1. \A n \in 0 .. ULONG - 1 : n \in Nat
    BY ConstantTypes
  <2> QED BY <1>2, <2>1, Zenon
<1> QED BY <1>2, <1>3, <1>4, Zenon

LEMMA SlotKept ==
    ASSUME TypeOK, Timely, NEW s \in Slot, SlotOK(s),
           flow_table'[s].byte_count = flow_table[s].byte_count, flow_table'[s].byte = flow_table[s].byte,
           flow_table'[s].time = flow_table[s].time, accepted'[s] = accepted[s], born'[s] = born[s],
           jiffies' \in Nat, jiffies <= jiffies'
    PROVE  SlotOK(s)'
<1> DEFINE f == flow_table[s]
<1>1. /\ f.byte_count \in Nat /\ born[s] \in Nat /\ jiffies \in Nat /\ born[s] <= jiffies
  BY SlotTypes, Zenon DEF Timely
<1>2. Allowance(s) \in Nat /\ Allowance(s)' \in Nat /\ Allowance(s) <= Allowance(s)'
  <2>1. jiffies - born[s] \in Nat /\ jiffies' - born[s] \in Nat /\ jiffies - born[s] <= jiffies' - born[s]
    BY <1>1
  <2>2. /\ Grant(jiffies - born[s]) \in Nat /\ Grant(jiffies' - born[s]) \in Nat
        /\ Grant(jiffies - born[s]) <= Grant(jiffies' - born[s])
    BY <2>1, GrantGrows
  <2>3. Allowance(s)' = IF born[s] = 0 THEN 0 ELSE Grant(jiffies' - born[s])
    BY Zenon DEF Allowance
  <2> QED BY <2>2, <2>3 DEF Allowance
<1>3. f.byte_count < threshold + 2 * MaxLen + Allowance(s)
  BY Zenon DEF SlotOK
<1>4. f.byte_count < threshold + 2 * MaxLen + Allowance(s)'
  BY <1>1, <1>2, <1>3, ConstantTypes, LongestPacket
<1> QED BY <1>4, Zenon DEF SlotOK

LEMMA CallKept ==
    ASSUME TypeOK, Timely, NEW k \in Cpu, CallOK(k), hook'[k] = hook[k], NEW s \in Slot, s = hook[k].slot,
           flow_table'[s].byte_count = flow_table[s].byte_count, flow_table'[s].byte = flow_table[s].byte,
           flow_table'[s].time = flow_table[s].time, jiffies' \in Nat, jiffies <= jiffies'
    PROVE  CallOK(k)'
<1> DEFINE o == hook[k]
           f == flow_table[s]
<1>1. /\ f.time \in Nat /\ f.byte \in Nat /\ jiffies \in Nat /\ f.time <= jiffies /\ o.loaded \in Nat
  BY SlotTypes, CallTypes, Zenon DEF Timely
<1>2. /\ Grant(jiffies - f.time) \in Nat /\ Grant(jiffies' - f.time) \in Nat
      /\ Grant(jiffies - f.time) <= Grant(jiffies' - f.time)
  <2>1. jiffies - f.time \in Nat /\ jiffies' - f.time \in Nat /\ jiffies - f.time <= jiffies' - f.time
    BY <1>1
  <2> QED BY <2>1, GrantGrows
<1>3. o.pc = "count" =>
              /\ o.loaded = f.byte_count
              /\ IF o.free THEN o.loaded < threshold
                 ELSE o.loaded >= threshold /\ o.loaded - f.byte <= Grant(jiffies - f.time)
  BY Zenon DEF CallOK
<1>4. o.loaded - f.byte <= Grant(jiffies - f.time) => o.loaded - f.byte <= Grant(jiffies' - f.time)
  BY <1>1, <1>2
<1>5. o.pc = "countfree" => o.loaded = f.byte /\ o.loaded + o.len <= f.byte_count /\ o.loaded < threshold
  BY Zenon DEF CallOK
<1> QED BY <1>3, <1>4, <1>5, Zenon DEF CallOK

LEMMA AloneKept ==
    ASSUME Alone, overlapped' = overlapped,
           \A j \in Cpu : hook'[j].pc # "idle" => hook[j].pc # "idle" /\ hook'[j].slot = hook[j].slot
    PROVE  Alone'
<1>1. \A s : Inside(s)' \subseteq Inside(s)
  BY DEF Inside
<1> QED BY <1>1, Zenon DEF Alone

-----------------------------------------------------------------------------
\* The steps of the hook.

LEMMA TickInv == ASSUME IInv, tick PROVE IInv'
<1>1. /\ jiffies' = jiffies + 1 /\ jiffies < MaxTime
      /\ UNCHANGED <<flow_table, hook, packets, accepted, born, wrapped, overlapped, revived>>
  BY Zenon DEF tick, history
<1>2. jiffies \in Jiffy /\ jiffies' \in Jiffy /\ jiffies' \in Nat /\ jiffies <= jiffies'
  <2>1. jiffies \in Jiffy
    BY Zenon DEF IInv, TypeOK
  <2> QED BY <1>1, <2>1, ConstantTypes DEF Jiffy
<1>3. TypeOK' /\ InHook' /\ Favoured'
  BY <1>1, <1>2, Zenon DEF IInv, TypeOK, InHook, Favoured
<1>4. Timely'
  <2> SUFFICES ASSUME NEW s \in Slot PROVE flow_table[s].time <= jiffies' /\ born[s] <= jiffies'
    BY <1>1, Zenon DEF Timely
  <2>1. /\ flow_table[s].time \in Nat /\ born[s] \in Nat /\ jiffies \in Nat
        /\ flow_table[s].time <= jiffies /\ born[s] <= jiffies
    BY SlotTypes, Zenon DEF IInv, Timely
  <2> QED BY <1>1, <2>1
<1>5. Alone'
  BY <1>1, AloneKept, Zenon DEF IInv
<1>6. \A s : Solo(s)' <=> Solo(s)
  BY <1>1, Zenon DEF Solo
<1>7. Counted'
  BY <1>1, <1>2, <1>6, SlotKept, Zenon DEF IInv, Counted
<1>8. Serving'
  BY <1>1, <1>2, <1>6, CallKept, CallTypes, Zenon DEF IInv, Serving
<1> QED BY <1>3, <1>4, <1>5, <1>7, <1>8, Zenon DEF IInv

LEMMA EnterInv ==
    ASSUME IInv, NEW k \in Cpu, NEW c \in Conn, NEW len \in PayloadLen, NEW fin \in BOOLEAN,
           rate_limit(k, c, len, fin)
    PROVE  IInv'
<1> DEFINE s == hash(c)
           o == [pc |-> IF len = 0 THEN "out" ELSE "check", slot |-> s, len |-> len, fin |-> fin,
                 ret |-> "ACCEPT", free |-> FALSE, loaded |-> 0]
<1>1. /\ hook[k].pc = "idle" /\ packets < MaxPackets /\ packets' = packets + 1
      /\ flow_table' = get_flow(c)
      /\ hook' = [hook EXCEPT ![k] = o]
      /\ overlapped' = IF Inside(s) # {} THEN overlapped \cup {s} ELSE overlapped
      /\ UNCHANGED <<jiffies, accepted, born, wrapped, revived>>
  BY Zenon DEF rate_limit
<1>2. s \in Slot
  BY HashInTable
<1>3. /\ o \in Call /\ o.slot = s /\ o.len = len /\ o.ret = "ACCEPT" /\ o.pc \in {"out", "check"}
  <2>1. 0 \in 0 .. ULONG - 1
    BY ConstantTypes
  <2> QED BY <1>2, <2>1 DEF Call
<1> HIDE DEF o
<1>4. /\ hook' \in [Cpu -> Call] /\ hook'[k] = o
      /\ \A j \in Cpu : j # k => hook'[j] = hook[j]
  BY <1>1, <1>3, Zenon DEF IInv, TypeOK
<1>5. /\ flow_table' \in [Slot -> Flow]
      /\ \A t \in Slot : /\ flow_table'[t].byte_count = flow_table[t].byte_count
                         /\ flow_table'[t].byte = flow_table[t].byte
                         /\ flow_table'[t].time = flow_table[t].time
  <2> DEFINE f == flow_table[s]
             key == IF f.key = NoKey THEN c ELSE f.key
             g == [f EXCEPT !.key = key]
  <2>1. flow_table' = [flow_table EXCEPT ![s] = g]
    BY <1>1 DEF get_flow
  <2>2. flow_table \in [Slot -> Flow] /\ f \in Flow
    BY <1>2, Zenon DEF IInv, TypeOK
  <2>3. key \in Conn \cup {NoKey}
    BY <2>2 DEF Flow
  <2> HIDE DEF key, f
  <2>4. g \in Flow /\ g.byte_count = f.byte_count /\ g.byte = f.byte /\ g.time = f.time
    BY <2>2, <2>3 DEF Flow
  <2> HIDE DEF g
  <2>5. flow_table' \in [Slot -> Flow] /\ flow_table'[s] = g /\ \A t \in Slot : t # s => flow_table'[t] = flow_table[t]
    BY <1>2, <2>1, <2>2, <2>4, Zenon
  <2> QED BY <2>4, <2>5, Zenon DEF f
<1>6. overlapped \subseteq overlapped' /\ (s \notin overlapped' => Inside(s) = {}) /\ overlapped' \subseteq overlapped \cup {s}
  BY <1>1, Zenon
<1> HIDE DEF s
<1>7. TypeOK'
  <2>1. packets' \in 0 .. MaxPackets
    BY <1>1, ConstantTypes DEF IInv, TypeOK
  <2>2. overlapped' \subseteq Slot /\ revived' \subseteq overlapped'
    BY <1>1, <1>2, <1>6, Zenon DEF IInv, TypeOK
  <2> QED BY <1>1, <1>4, <1>5, <2>1, <2>2, Zenon DEF IInv, TypeOK
<1>8. Timely' /\ InHook'
  BY <1>1, <1>3, <1>4, <1>5, Zenon DEF IInv, Timely, InHook
<1>9. Alone'
  <2> SUFFICES ASSUME NEW t \in Slot, t \notin overlapped', NEW i \in Inside(t)', NEW j \in Inside(t)'
               PROVE  i = j
    BY Zenon DEF Alone
  <2>1. \A i0 \in Inside(t)' : i0 \in Cpu /\ (i0 = k => t = s) /\ (i0 # k => i0 \in Inside(t))
    BY <1>3, <1>4, Zenon DEF Inside
  <2>2. \A i0, j0 \in Inside(t) : i0 = j0
    BY <1>6, Zenon DEF IInv, Alone
  <2>3. t = s => Inside(t) = {}
    BY <1>6, Zenon
  <2> QED BY <2>1, <2>2, <2>3, Zenon
<1>10. \A t : Solo(t)' => Solo(t)
  BY <1>1, <1>6, Zenon DEF Solo
<1>11. jiffies' \in Nat /\ jiffies <= jiffies'
  <2>1. jiffies \in Nat
    BY <1>2, SlotTypes, Zenon DEF IInv
  <2> QED BY <1>1, <2>1
<1>12. Counted'
  BY <1>1, <1>5, <1>10, <1>11, SlotKept, Zenon DEF IInv, Counted
<1>13. Serving'
  <2> SUFFICES ASSUME NEW j \in Cpu, Solo(hook[j].slot)' PROVE CallOK(j)'
    BY Zenon DEF Serving
  <2>1. CASE j = k
    BY <1>3, <1>4, <2>1, Zenon DEF CallOK
  <2>2. CASE j # k
    <3>1. hook'[j] = hook[j] /\ hook[j].slot \in Slot
      BY <1>4, <2>2, CallTypes, Zenon DEF IInv
    <3>2. CallOK(j)
      BY <1>10, <3>1, Zenon DEF IInv, Serving
    <3> QED BY <1>5, <1>11, <3>1, <3>2, CallKept, Zenon DEF IInv
  <2> QED BY <2>1, <2>2, Zenon
<1>14. Favoured'
  BY <1>1, <1>3, <1>4, <1>5, Zenon DEF IInv, Favoured
<1> QED BY <1>7, <1>8, <1>9, <1>12, <1>13, <1>14, Zenon DEF IInv

\* A slot that one CPU at a time has used: the unsigned difference is the real one.
LEMMA ExceededIsReal ==
    ASSUME IInv, NEW s \in Slot, Solo(s)
    PROVE  Exceeded(flow_table[s]) <=>
              flow_table[s].byte_count - flow_table[s].byte > Grant(jiffies - flow_table[s].time)
<1> DEFINE f == flow_table[s]
<1>1. f.byte_count \in Nat /\ f.byte_count < UINT /\ f.byte \in Nat
  BY SlotTypes, Zenon DEF IInv
<1>2. f.byte <= f.byte_count
  BY Zenon DEF IInv, Counted, SlotOK
<1>3. f.byte_count - f.byte \in 0 .. ULONG - 1
  BY <1>1, <1>2, ConstantTypes
<1> DEFINE d == f.byte_count - f.byte
<1>4. d % ULONG = d
  <2> HIDE DEF d
  <2> QED BY <1>3, ConstantTypes DEF d
<1>5. Exceeded(f) <=> d % ULONG > Grant(jiffies - f.time)
  BY Zenon DEF Exceeded, Grant
<1> QED BY <1>4, <1>5, Zenon

LEMMA DecideInv == ASSUME IInv, NEW k \in Cpu, decide(k) PROVE IInv'
<1> DEFINE o == hook[k]
           s == o.slot
           f == flow_table[s]
           free == f.byte_count < threshold
           drop == ~free /\ Exceeded(f)
           r == [pc |-> IF drop THEN "out" ELSE "count", slot |-> s, len |-> o.len, fin |-> o.fin,
                 ret |-> IF drop THEN "DROP" ELSE "ACCEPT", free |-> free, loaded |-> f.byte_count]
<1>1. /\ o.pc = "check" /\ hook' = [hook EXCEPT ![k] = r]
      /\ UNCHANGED <<jiffies, flow_table, packets, accepted, born, wrapped, overlapped, revived>>
  BY Zenon DEF decide, history
<1>2. /\ s \in Slot /\ o.len \in PayloadLen /\ o.fin \in BOOLEAN
  BY <1>1, CallTypes, Zenon DEF IInv, InHook
<1>3. /\ f.byte_count \in Nat /\ f.byte_count < UINT /\ f.byte \in Nat /\ jiffies \in Nat
  BY <1>2, SlotTypes, Zenon DEF IInv
<1>4. free \in BOOLEAN
  BY <1>3, ConstantTypes
<1>5. Solo(s) /\ ~drop /\ ~free => f.byte_count - f.byte <= Grant(jiffies - f.time)
  <2> SUFFICES ASSUME Solo(s), ~Exceeded(f) PROVE f.byte_count - f.byte <= Grant(jiffies - f.time)
    BY Zenon
  <2>1. ~(f.byte_count - f.byte > Grant(jiffies - f.time))
    BY <1>2, ExceededIsReal, Zenon
  <2>2. f.time \in Nat /\ f.time <= jiffies
    BY <1>2, SlotTypes, Zenon DEF IInv, Timely
  <2>3. Grant(jiffies - f.time) \in Nat
    <3>1. jiffies - f.time \in Nat /\ jiffies - f.time <= jiffies - f.time
      BY <1>3, <2>2
    <3> QED BY <3>1, GrantGrows
  <2> QED BY <1>3, <2>1, <2>3
<1>6. ~free => f.byte_count >= threshold
  BY <1>3, ConstantTypes
<1> HIDE DEF drop, free
<1>7. /\ r \in Call /\ r.slot = s /\ r.len = o.len /\ r.pc \in {"out", "count"}
      /\ r.free = free /\ r.loaded = f.byte_count /\ (r.pc = "count" => ~drop)
  <2>1. f.byte_count \in 0 .. ULONG - 1
    BY <1>3, ConstantTypes
  <2> QED BY <1>2, <1>4, <2>1 DEF Call
<1> HIDE DEF r
<1>8. /\ hook' \in [Cpu -> Call] /\ hook'[k] = r
      /\ \A j \in Cpu : j # k => hook'[j] = hook[j]
  BY <1>1, <1>7, Zenon DEF IInv, TypeOK
<1>9. TypeOK' /\ Timely' /\ InHook'
  BY <1>1, <1>2, <1>7, <1>8, Zenon DEF IInv, TypeOK, Timely, InHook
<1>10. Alone'
  <2>1. \A j \in Cpu : hook'[j].pc # "idle" => hook[j].pc # "idle" /\ hook'[j].slot = hook[j].slot
    BY <1>1, <1>7, <1>8, Zenon
  <2> QED BY <1>1, <2>1, AloneKept, Zenon DEF IInv
<1>11. \A t : Solo(t)' <=> Solo(t)
  BY <1>1, Zenon DEF Solo
<1>12. jiffies' \in Nat /\ jiffies <= jiffies'
  BY <1>1, <1>3
<1>13. Counted'
  BY <1>1, <1>11, <1>12, SlotKept, Zenon DEF IInv, Counted
<1>14. Serving'
  <2> SUFFICES ASSUME NEW j \in Cpu, Solo(hook[j].slot)' PROVE CallOK(j)'
    BY Zenon DEF Serving
  <2>1. CASE j = k
    <3>1. hook'[j] = r /\ Solo(s)
      BY <1>7, <1>8, <1>11, <2>1, Zenon
    <3>2. free => f.byte_count < threshold
      BY DEF free
    <3> QED BY <1>1, <1>5, <1>6, <1>7, <3>1, <3>2, Zenon DEF CallOK
  <2>2. CASE j # k
    <3>1. hook'[j] = hook[j] /\ hook[j].slot \in Slot
      BY <1>8, <2>2, CallTypes, Zenon DEF IInv
    <3>2. CallOK(j)
      BY <1>11, <3>1, Zenon DEF IInv, Serving
    <3> QED BY <1>1, <1>12, <3>1, <3>2, CallKept, Zenon DEF IInv
  <2> QED BY <2>1, <2>2, Zenon
<1>15. Favoured'
  BY <1>1, <1>2, <1>7, <1>8, Zenon DEF IInv, Favoured
<1> QED BY <1>9, <1>10, <1>13, <1>14, <1>15, Zenon DEF IInv

\* Every other CPU in a slot that one CPU uses at a time is out of the hook.
LEMMA OthersOutside ==
    ASSUME IInv, NEW k \in Cpu, NEW j \in Cpu, j # k, hook[k].pc # "idle", hook[j].slot = hook[k].slot,
           Solo(hook[k].slot)
    PROVE  hook[j].pc = "idle"
<1>1. hook[k].slot \in Slot \ overlapped
  BY CallTypes, Zenon DEF IInv, Solo
<1> QED BY <1>1, Zenon DEF IInv, Alone, Inside

LEMMA AddFacts ==
    ASSUME NEW x \in Nat, NEW len \in Nat
    PROVE  /\ Add(x, len) \in 0 .. UINT - 1 /\ Add(x, len) \in Nat /\ Add(x, len) <= x + len
           /\ x + len < UINT => Add(x, len) = x + len
<1> DEFINE n == x + len
<1>1. n \in Nat
  OBVIOUS
<1>2. n % UINT \in 0 .. UINT - 1 /\ n % UINT <= n /\ (n < UINT => n % UINT = n)
  <2> HIDE DEF n
  <2> QED BY <1>1, ConstantTypes
<1>3. Add(x, len) = n % UINT
  BY Zenon DEF Add
<1> QED BY <1>2, <1>3, ConstantTypes

\* What an accepted packet leaves in a slot that one CPU uses at a time.
LEMMA CountBound ==
    ASSUME IInv, NEW k \in Cpu, NEW s \in Slot, s = hook[k].slot, hook[k].pc = "count", Solo(s),
           NEW b \in Nat, b = IF born[s] = 0 THEN jiffies ELSE born[s]
    PROVE  /\ b # 0 /\ b <= jiffies /\ (~hook[k].free => b <= flow_table[s].time)
           /\ hook[k].loaded + hook[k].len < threshold + 2 * MaxLen + Grant(jiffies - b)
<1> DEFINE o == hook[k]
           f == flow_table[s]
<1>1. /\ f.byte_count \in Nat /\ f.byte \in Nat /\ f.time \in Nat /\ born[s] \in Nat /\ jiffies \in Nat
      /\ jiffies > 0 /\ f.time <= jiffies /\ born[s] <= jiffies
  BY SlotTypes, Zenon DEF IInv, Timely
<1>2. o.loaded \in Nat /\ o.len \in Nat /\ o.len <= MaxLen /\ MaxLen \in Nat
  BY CallTypes, LongestPacket, Zenon DEF IInv, InHook
<1>3. /\ o.loaded = f.byte_count
      /\ o.free => o.loaded < threshold
      /\ ~o.free => o.loaded >= threshold /\ o.loaded - f.byte <= Grant(jiffies - f.time)
  BY Zenon DEF IInv, Serving, CallOK
<1>4. /\ f.byte < threshold + MaxLen
      /\ IF born[s] = 0 THEN f.byte_count = 0 ELSE born[s] <= f.time
  BY Zenon DEF IInv, Counted, SlotOK
<1>5. b # 0 /\ b <= jiffies
  BY <1>1
<1>6. ~o.free => b <= f.time
  BY <1>1, <1>3, <1>4, ConstantTypes
<1>7. Grant(jiffies - b) \in Nat
  <2>1. jiffies - b \in Nat /\ jiffies - b <= jiffies - b
    BY <1>1, <1>5
  <2> QED BY <2>1, GrantGrows
<1>8. CASE o.free
  BY <1>2, <1>3, <1>5, <1>6, <1>7, <1>8, ConstantTypes
<1>9. CASE ~o.free
  <2>1. jiffies - f.time \in Nat /\ jiffies - b \in Nat /\ jiffies - f.time <= jiffies - b
    BY <1>1, <1>5, <1>6, <1>9
  <2>2. Grant(jiffies - f.time) \in Nat /\ Grant(jiffies - f.time) <= Grant(jiffies - b)
    BY <2>1, GrantGrows
  <2> QED BY <1>1, <1>2, <1>3, <1>4, <1>5, <1>6, <1>7, <1>9, <2>2, ConstantTypes
<1> QED BY <1>8, <1>9, Zenon

LEMMA CountInv == ASSUME IInv, NEW k \in Cpu, count(k) PROVE IInv'
<1> DEFINE o == hook[k]
           s == o.slot
           f == flow_table[s]
           n == Add(o.loaded, o.len)
           g == [key |-> f.key, byte_count |-> n, byte |-> f.byte, time |-> IF o.free THEN jiffies ELSE f.time]
           r == [pc |-> IF o.free THEN "countfree" ELSE "out", slot |-> s, len |-> o.len, fin |-> o.fin,
                 ret |-> "ACCEPT", free |-> o.free, loaded |-> f.byte]
           b == IF born[s] = 0 THEN jiffies ELSE born[s]
<1>1. /\ o.pc = "count" /\ hook' = [hook EXCEPT ![k] = r] /\ flow_table' = [flow_table EXCEPT ![s] = g]
      /\ accepted' = [accepted EXCEPT ![s] = accepted[s] + o.len]
      /\ born' = [born EXCEPT ![s] = b]
      /\ wrapped' = IF o.loaded + o.len >= UINT THEN wrapped \cup {s} ELSE wrapped
      /\ UNCHANGED <<jiffies, packets, overlapped, revived>>
  BY Zenon DEF count
<1>2. /\ s \in Slot /\ o.len \in PayloadLen /\ o.len \in Nat /\ o.fin \in BOOLEAN /\ o.free \in BOOLEAN /\ o.loaded \in Nat
  BY <1>1, CallTypes, Zenon DEF IInv, InHook
<1>3. /\ f.key \in Conn \cup {NoKey} /\ f.byte_count \in Nat /\ f.byte \in Nat /\ f.byte < ULONG
      /\ f.time \in Jiffy /\ f.time \in Nat /\ accepted[s] \in Nat /\ born[s] \in Nat /\ jiffies \in Nat /\ jiffies > 0
  BY <1>2, SlotTypes, Zenon DEF IInv
<1>4. n \in 0 .. UINT - 1 /\ n \in Nat /\ n <= o.loaded + o.len /\ (o.loaded + o.len < UINT => n = o.loaded + o.len)
  BY <1>2, AddFacts, Zenon
<1>5. jiffies \in Jiffy /\ b \in Jiffy \cup {0} /\ b \in Nat /\ b <= jiffies
  <2>1. jiffies \in Jiffy /\ born[s] \in Jiffy \cup {0} /\ born[s] <= jiffies
    BY <1>2, Zenon DEF IInv, TypeOK, Timely
  <2> QED BY <1>3, <2>1
<1>6. f.byte \in 0 .. ULONG - 1
  BY <1>3, ConstantTypes
<1> HIDE DEF n, b
<1>7. /\ g \in Flow /\ g.byte_count = n /\ g.byte = f.byte /\ (o.free => g.time = jiffies) /\ (~o.free => g.time = f.time)
  BY <1>2, <1>3, <1>4, <1>5, <1>6 DEF Flow
<1>8. /\ r \in Call /\ r.slot = s /\ r.len = o.len /\ r.pc \in {"out", "countfree"} /\ r.loaded = f.byte
      /\ (r.pc = "countfree" => o.free)
  BY <1>2, <1>6 DEF Call
<1> HIDE DEF g, r
<1>9. /\ hook' \in [Cpu -> Call] /\ hook'[k] = r
      /\ \A j \in Cpu : j # k => hook'[j] = hook[j]
  BY <1>1, <1>8, Zenon DEF IInv, TypeOK
<1>10. /\ flow_table' \in [Slot -> Flow] /\ flow_table'[s] = g
       /\ \A t \in Slot : t # s => flow_table'[t] = flow_table[t]
  BY <1>1, <1>2, <1>7, Zenon DEF IInv, TypeOK
<1>11. /\ accepted' \in [Slot -> Nat] /\ accepted'[s] = accepted[s] + o.len
       /\ \A t \in Slot : t # s => accepted'[t] = accepted[t]
  <2>1. accepted[s] + o.len \in Nat
    BY <1>2, <1>3
  <2> QED BY <1>1, <1>2, <2>1, Zenon DEF IInv, TypeOK
<1>12. /\ born' \in [Slot -> Jiffy \cup {0}] /\ born'[s] = b /\ \A t \in Slot : t # s => born'[t] = born[t]
  BY <1>1, <1>2, <1>5, Zenon DEF IInv, TypeOK
<1>13. wrapped \subseteq wrapped' /\ wrapped' \subseteq wrapped \cup {s} /\ (s \notin wrapped' => ~(o.loaded + o.len >= UINT))
  BY <1>1, Zenon
<1>14. TypeOK'
  BY <1>1, <1>2, <1>9, <1>10, <1>11, <1>12, <1>13, Zenon DEF IInv, TypeOK
<1>15. Timely'
  <2>1. g.time <= jiffies
    <3>1. f.time <= jiffies
      BY <1>2, Zenon DEF IInv, Timely
    <3> QED BY <1>2, <1>3, <1>7, <3>1
  <2> QED BY <1>1, <1>5, <1>10, <1>12, <2>1, Zenon DEF IInv, Timely
<1>16. InHook'
  BY <1>2, <1>8, <1>9, Zenon DEF IInv, InHook
<1>17. Alone'
  <2>1. \A j \in Cpu : hook'[j].pc # "idle" => hook[j].pc # "idle" /\ hook'[j].slot = hook[j].slot
    BY <1>1, <1>8, <1>9, Zenon
  <2> QED BY <1>1, <2>1, AloneKept, Zenon DEF IInv
<1>18. \A t : Solo(t)' => Solo(t)
  BY <1>1, <1>13, Zenon DEF Solo
<1>19. jiffies' \in Nat /\ jiffies <= jiffies'
  BY <1>1, <1>3
<1>20. Counted'
  <2> SUFFICES ASSUME NEW t \in Slot, Solo(t)' PROVE SlotOK(t)'
    BY Zenon DEF Counted
  <2>1. Solo(t) /\ SlotOK(t)
    BY <1>18, Zenon DEF IInv, Counted
  <2>2. CASE t # s
    BY <1>10, <1>11, <1>12, <1>19, <2>1, <2>2, SlotKept, Zenon DEF IInv
  <2>3. CASE t = s
    <3>1. o.loaded + o.len < UINT /\ o.loaded = f.byte_count
      <4>1. ~(o.loaded + o.len >= UINT)
        BY <1>13, <2>3, Zenon DEF Solo
      <4>2. o.loaded = f.byte_count
        BY <1>1, <2>1, <2>3, Zenon DEF IInv, Serving, CallOK
      <4> QED BY <1>2, <4>1, <4>2, ConstantTypes
    <3>2. accepted[s] = f.byte_count /\ f.byte <= f.byte_count /\ f.byte < threshold + MaxLen
      BY <2>1, <2>3, Zenon DEF SlotOK
    <3>3. /\ b # 0 /\ (~o.free => b <= f.time)
          /\ o.loaded + o.len < threshold + 2 * MaxLen + Grant(jiffies - b)
      BY <1>1, <1>2, <1>5, <2>1, <2>3, CountBound, Zenon DEF b
    <3>4. n = o.loaded + o.len /\ accepted'[s] = n /\ f.byte <= n
      BY <1>2, <1>3, <1>4, <1>11, <3>1, <3>2
    <3>5. b <= g.time
      BY <1>2, <1>5, <1>7, <3>3, Zenon
    <3>6. Allowance(t)' = Grant(jiffies - b)
      <4>1. Allowance(t)' = IF born'[t] = 0 THEN 0 ELSE Grant(jiffies' - born'[t])
        BY Zenon DEF Allowance
      <4> QED BY <1>1, <1>12, <2>3, <3>3, <4>1, Zenon
    <3>7. n < threshold + 2 * MaxLen + Allowance(t)'
      BY <3>3, <3>4, <3>6, Zenon
    <3>8. /\ flow_table'[t].byte_count = n /\ flow_table'[t].byte = f.byte
          /\ flow_table'[t].time = g.time /\ born'[t] = b /\ accepted'[t] = n
      BY <1>7, <1>10, <1>12, <2>3, <3>4, Zenon
    <3> QED BY <2>3, <3>2, <3>3, <3>4, <3>5, <3>7, <3>8, Zenon DEF SlotOK
  <2> QED BY <2>2, <2>3, Zenon
<1>21. Serving'
  <2> SUFFICES ASSUME NEW j \in Cpu, Solo(hook[j].slot)' PROVE CallOK(j)'
    BY Zenon DEF Serving
  <2>1. CASE j = k
    <3>1. Solo(s) /\ hook'[j] = r
      BY <1>8, <1>9, <1>18, <2>1, Zenon
    <3>2. o.loaded + o.len < UINT
      <4>1. ~(o.loaded + o.len >= UINT)
        BY <1>8, <1>9, <1>13, <2>1, Zenon DEF Solo
      <4> QED BY <1>2, <4>1, ConstantTypes
    <3>3. o.loaded = f.byte_count /\ f.byte <= f.byte_count /\ (o.free => o.loaded < threshold)
      BY <1>1, <1>2, <3>1, Zenon DEF IInv, Serving, CallOK, Counted, SlotOK
    <3>4. o.free => f.byte + o.len <= n /\ f.byte < threshold
      BY <1>2, <1>3, <1>4, <3>2, <3>3, ConstantTypes
    <3> QED BY <1>7, <1>8, <1>10, <3>1, <3>4, Zenon DEF CallOK
  <2>2. CASE j # k
    <3>1. hook'[j] = hook[j] /\ hook[j].slot \in Slot /\ Solo(hook[j].slot)
      BY <1>9, <1>18, <2>2, CallTypes, Zenon DEF IInv
    <3>2. CallOK(j)
      BY <3>1, Zenon DEF IInv, Serving
    <3>3. CASE hook[j].slot = s
      <4>1. hook[j].pc = "idle"
        BY <1>1, <2>2, <3>1, <3>3, OthersOutside, Zenon
      <4> QED BY <3>1, <4>1, Zenon DEF CallOK
    <3>4. CASE hook[j].slot # s
      BY <1>10, <1>19, <3>1, <3>2, <3>4, CallKept, Zenon DEF IInv
    <3> QED BY <3>3, <3>4, Zenon
  <2> QED BY <2>1, <2>2, Zenon
<1>22. Favoured'
  <2>1. ASSUME s \notin revived PROVE n <= accepted[s] + o.len
    <3>1. o.loaded <= accepted[s]
      BY <1>1, <2>1, Zenon DEF IInv, Favoured
    <3> QED BY <1>2, <1>3, <1>4, <3>1
  <2>2. \A t \in Slot \ revived : flow_table'[t].byte_count <= accepted'[t]
    BY <1>7, <1>10, <1>11, <2>1, Zenon DEF IInv, Favoured
  <2>3. ASSUME NEW j \in Cpu, hook'[j].pc = "count", hook'[j].slot \notin revived
        PROVE  hook'[j].loaded <= accepted'[hook'[j].slot]
    <3>1. j # k /\ hook'[j] = hook[j] /\ hook[j].slot \in Slot /\ hook[j].loaded \in Nat
      BY <1>8, <1>9, <2>3, CallTypes, Zenon DEF IInv
    <3>2. hook[j].loaded <= accepted[hook[j].slot]
      BY <2>3, <3>1, Zenon DEF IInv, Favoured
    <3>3. CASE hook[j].slot = s
      BY <1>2, <1>3, <1>11, <3>1, <3>2, <3>3
    <3>4. CASE hook[j].slot # s
      BY <1>11, <3>1, <3>2, <3>4, Zenon
    <3> QED BY <3>3, <3>4, Zenon
  <2> QED BY <1>1, <2>2, <2>3, Zenon DEF Favoured
<1> QED BY <1>14, <1>15, <1>16, <1>17, <1>20, <1>21, <1>22, Zenon DEF IInv

LEMMA CountFreeInv == ASSUME IInv, NEW k \in Cpu, count_free(k) PROVE IInv'
<1> DEFINE o == hook[k]
           s == o.slot
           f == flow_table[s]
           n == (o.loaded + o.len) % ULONG
           g == [f EXCEPT !.byte = n]
           r == [o EXCEPT !.pc = "out"]
<1>1. /\ o.pc = "countfree" /\ hook' = [hook EXCEPT ![k] = r]
      /\ UNCHANGED <<jiffies, packets, accepted, born, wrapped, overlapped, revived>>
  BY Zenon DEF count_free, history
<1>2. flow_table' = [flow_table EXCEPT ![s] = g]
  BY DEF count_free
<1>3. /\ s \in Slot /\ o.len \in PayloadLen /\ o.len \in Nat /\ o.len <= MaxLen /\ MaxLen \in Nat /\ o.loaded \in Nat
  BY <1>1, CallTypes, LongestPacket, Zenon DEF IInv, InHook
<1>4. f.byte_count \in Nat /\ f.byte_count < UINT /\ jiffies \in Nat
  BY <1>3, SlotTypes, Zenon DEF IInv
<1>5. n \in 0 .. ULONG - 1 /\ (o.loaded + o.len < ULONG => n = o.loaded + o.len)
  <2> DEFINE m == o.loaded + o.len
  <2>1. m \in Nat
    BY <1>3
  <2> HIDE DEF m
  <2>2. m % ULONG \in 0 .. ULONG - 1 /\ (m < ULONG => m % ULONG = m)
    BY <2>1, ConstantTypes
  <2> QED BY <2>2 DEF m
<1> HIDE DEF n
<1>6. /\ g \in Flow /\ g.byte_count = f.byte_count /\ g.byte = n /\ g.time = f.time
  <2>1. f \in Flow
    BY <1>3, Zenon DEF IInv, TypeOK
  <2> QED BY <1>5, <2>1 DEF Flow
<1>7. /\ r \in Call /\ r.slot = s /\ r.len = o.len /\ r.pc = "out"
  <2>1. o \in Call
    BY Zenon DEF IInv, TypeOK
  <2> QED BY <2>1 DEF Call
<1> HIDE DEF g, r
<1>8. /\ hook' \in [Cpu -> Call] /\ hook'[k] = r
      /\ \A j \in Cpu : j # k => hook'[j] = hook[j]
  BY <1>1, <1>7, Zenon DEF IInv, TypeOK
<1>9. /\ flow_table' \in [Slot -> Flow] /\ flow_table'[s] = g
      /\ \A t \in Slot : t # s => flow_table'[t] = flow_table[t]
  BY <1>2, <1>3, <1>6, Zenon DEF IInv, TypeOK
<1>10. TypeOK' /\ Timely' /\ InHook' /\ Favoured'
  <2>1. \A t \in Slot : flow_table'[t].byte_count = flow_table[t].byte_count /\ flow_table'[t].time = flow_table[t].time
    BY <1>6, <1>9, Zenon
  <2>2. TypeOK' /\ InHook'
    BY <1>1, <1>3, <1>7, <1>8, <1>9, Zenon DEF IInv, TypeOK, InHook
  <2>3. Timely' /\ Favoured'
    BY <1>1, <1>7, <1>8, <2>1, Zenon DEF IInv, Timely, Favoured
  <2> QED BY <2>2, <2>3, Zenon
<1>11. Alone'
  <2>1. \A j \in Cpu : hook'[j].pc # "idle" => hook[j].pc # "idle" /\ hook'[j].slot = hook[j].slot
    BY <1>1, <1>7, <1>8, Zenon
  <2> QED BY <1>1, <2>1, AloneKept, Zenon DEF IInv
<1>12. \A t : Solo(t)' <=> Solo(t)
  BY <1>1, Zenon DEF Solo
<1>13. jiffies' \in Nat /\ jiffies <= jiffies'
  BY <1>1, <1>4
<1>14. Counted'
  <2> SUFFICES ASSUME NEW t \in Slot, Solo(t) PROVE SlotOK(t)'
    BY <1>12, Zenon DEF Counted
  <2>1. SlotOK(t)
    BY Zenon DEF IInv, Counted
  <2>2. CASE t # s
    BY <1>1, <1>9, <1>13, <2>1, <2>2, SlotKept, Zenon DEF IInv
  <2>3. CASE t = s
    <3>1. o.loaded + o.len <= f.byte_count /\ o.loaded < threshold
      BY <1>1, <2>3, Zenon DEF IInv, Serving, CallOK
    <3>2. n <= f.byte_count /\ n < threshold + MaxLen
      BY <1>3, <1>4, <1>5, <3>1, ConstantTypes
    <3>3. /\ flow_table'[t].byte_count = flow_table[t].byte_count /\ flow_table'[t].byte = n
          /\ flow_table'[t].time = flow_table[t].time
      BY <1>6, <1>9, <2>3, Zenon
    <3>4. Allowance(t)' = Allowance(t)
      BY <1>1, Zenon DEF Allowance
    <3> QED BY <1>1, <2>1, <2>3, <3>2, <3>3, <3>4, Zenon DEF SlotOK
  <2> QED BY <2>2, <2>3, Zenon
<1>15. Serving'
  <2> SUFFICES ASSUME NEW j \in Cpu, Solo(hook[j].slot)' PROVE CallOK(j)'
    BY Zenon DEF Serving
  <2>1. CASE j = k
    BY <1>7, <1>8, <2>1, Zenon DEF CallOK
  <2>2. CASE j # k
    <3>1. hook'[j] = hook[j] /\ hook[j].slot \in Slot /\ Solo(hook[j].slot)
      BY <1>8, <1>12, <2>2, CallTypes, Zenon DEF IInv
    <3>2. CallOK(j)
      BY <3>1, Zenon DEF IInv, Serving
    <3>3. CASE hook[j].slot = s
      <4>1. hook[j].pc = "idle"
        BY <1>1, <2>2, <3>1, <3>3, OthersOutside, Zenon
      <4> QED BY <3>1, <4>1, Zenon DEF CallOK
    <3>4. CASE hook[j].slot # s
      BY <1>9, <1>13, <3>1, <3>2, <3>4, CallKept, Zenon DEF IInv
    <3> QED BY <3>3, <3>4, Zenon
  <2> QED BY <2>1, <2>2, Zenon
<1> QED BY <1>10, <1>11, <1>14, <1>15, Zenon DEF IInv

LEMMA IdleFacts == Idle \in Call /\ Idle.pc = "idle"
<1>1. 0 \in Slot /\ 0 \in 0 .. ULONG - 1
  BY ConstantTypes DEF Slot
<1> QED BY <1>1 DEF Idle, Call

\* A packet without FIN leaves the hook.
LEMMA LeaveInv == ASSUME IInv, NEW k \in Cpu, out(k), ~hook[k].fin PROVE IInv'
<1>1. /\ hook' = [hook EXCEPT ![k] = Idle]
      /\ UNCHANGED <<jiffies, flow_table, packets, accepted, born, wrapped, overlapped, revived>>
  BY Zenon DEF out, history
<1>2. /\ hook' \in [Cpu -> Call] /\ hook'[k].pc = "idle"
      /\ \A j \in Cpu : j # k => hook'[j] = hook[j]
  BY <1>1, IdleFacts, Zenon DEF IInv, TypeOK
<1>3. TypeOK' /\ Timely' /\ InHook' /\ Favoured'
  BY <1>1, <1>2, Zenon DEF IInv, TypeOK, Timely, InHook, Favoured
<1>4. Alone'
  BY <1>1, <1>2, AloneKept, Zenon DEF IInv
<1>5. \A t : Solo(t)' <=> Solo(t)
  BY <1>1, Zenon DEF Solo
<1>6. jiffies' \in Nat /\ jiffies <= jiffies'
  <2>1. hook[k].slot \in Slot
    BY CallTypes, Zenon DEF IInv
  <2>2. jiffies \in Nat
    BY <2>1, SlotTypes, Zenon DEF IInv
  <2> QED BY <1>1, <2>2
<1>7. Counted'
  BY <1>1, <1>5, <1>6, SlotKept, Zenon DEF IInv, Counted
<1>8. Serving'
  <2> SUFFICES ASSUME NEW j \in Cpu, Solo(hook[j].slot)' PROVE CallOK(j)'
    BY Zenon DEF Serving
  <2>1. CASE j = k
    BY <1>2, <2>1, Zenon DEF CallOK
  <2>2. CASE j # k
    <3>1. hook'[j] = hook[j] /\ hook[j].slot \in Slot /\ Solo(hook[j].slot)
      BY <1>2, <1>5, <2>2, CallTypes, Zenon DEF IInv
    <3>2. CallOK(j)
      BY <3>1, Zenon DEF IInv, Serving
    <3> QED BY <1>1, <1>6, <3>1, <3>2, CallKept, Zenon DEF IInv
  <2> QED BY <2>1, <2>2, Zenon
<1> QED BY <1>3, <1>4, <1>7, <1>8, Zenon DEF IInv

\* A FIN resets the slot.
LEMMA ResetInv == ASSUME IInv, NEW k \in Cpu, out(k), hook[k].fin PROVE IInv'
<1> DEFINE s == hook[k].slot
           g == [key |-> NoKey, byte_count |-> 0, byte |-> 0, time |-> jiffies]
<1>1. /\ hook[k].pc = "out" /\ hook' = [hook EXCEPT ![k] = Idle]
      /\ flow_table' = [flow_table EXCEPT ![s] = g]
      /\ accepted' = [accepted EXCEPT ![s] = 0] /\ born' = [born EXCEPT ![s] = 0]
      /\ UNCHANGED <<jiffies, packets>>
  BY Zenon DEF out, reset_flow
<1>2. \/ /\ Inside(s) = {k} /\ wrapped' = wrapped \ {s} /\ overlapped' = overlapped \ {s}
         /\ revived' = revived \ {s}
      \/ Inside(s) # {k} /\ revived' = revived \cup {s} /\ UNCHANGED <<wrapped, overlapped>>
  BY Zenon DEF out
<1>3. s \in Slot
  BY CallTypes, Zenon DEF IInv
<1>4. jiffies \in Nat /\ jiffies \in Jiffy
  BY <1>3, SlotTypes, Zenon DEF IInv, TypeOK
<1>5. g \in Flow /\ g.byte_count = 0 /\ g.byte = 0 /\ g.time = jiffies
  <2>1. 0 \in 0 .. UINT - 1 /\ 0 \in 0 .. ULONG - 1
    BY ConstantTypes
  <2> QED BY <1>4, <2>1 DEF Flow
<1> HIDE DEF g
<1>6. /\ hook' \in [Cpu -> Call] /\ hook'[k].pc = "idle"
      /\ \A j \in Cpu : j # k => hook'[j] = hook[j]
  BY <1>1, IdleFacts, Zenon DEF IInv, TypeOK
<1>7. /\ flow_table' \in [Slot -> Flow] /\ flow_table'[s] = g
      /\ \A t \in Slot : t # s => flow_table'[t] = flow_table[t]
  BY <1>1, <1>3, <1>5, Zenon DEF IInv, TypeOK
<1>8. /\ accepted' \in [Slot -> Nat] /\ accepted'[s] = 0 /\ born' \in [Slot -> Jiffy \cup {0}] /\ born'[s] = 0
      /\ \A t \in Slot : t # s => accepted'[t] = accepted[t] /\ born'[t] = born[t]
  <2>1. 0 \in Nat /\ 0 \in Jiffy \cup {0}
    OBVIOUS
  <2> QED BY <1>1, <1>3, <2>1, Zenon DEF IInv, TypeOK
<1>9. Inside(s) # {k} => s \in overlapped
  <2>1. k \in Inside(s)
    BY <1>1, Zenon DEF Inside
  <2>2. s \notin overlapped => \A j \in Inside(s) : j = k
    BY <1>3, <2>1, Zenon DEF IInv, Alone
  <2>3. (\A j \in Inside(s) : j = k) => Inside(s) = {k}
    BY <2>1
  <2> QED BY <2>2, <2>3, Zenon
<1>10. \A t : t # s => /\ (t \in wrapped' <=> t \in wrapped) /\ (t \in overlapped' <=> t \in overlapped)
                       /\ (t \in revived' <=> t \in revived)
  BY <1>2, Zenon
<1>11. \A j \in Cpu : j # k /\ hook[j].slot = s /\ hook[j].pc # "idle" => s \in overlapped' /\ s \in revived'
  <2> SUFFICES ASSUME NEW j \in Cpu, j # k, j \in Inside(s) PROVE s \in overlapped' /\ s \in revived'
    BY Zenon DEF Inside
  <2>1. Inside(s) # {k}
    BY Zenon
  <2> QED BY <1>2, <1>9, <2>1, Zenon
<1>12. TypeOK'
  <2>1. wrapped' \subseteq Slot /\ overlapped' \subseteq Slot /\ revived' \subseteq overlapped'
    BY <1>2, <1>3, <1>9, Zenon DEF IInv, TypeOK
  <2> QED BY <1>1, <1>6, <1>7, <1>8, <2>1, Zenon DEF IInv, TypeOK
<1>13. InHook'
  BY <1>6, Zenon DEF IInv, InHook
<1>14. Timely'
  <2>1. flow_table'[s].time <= jiffies /\ born'[s] <= jiffies
    BY <1>4, <1>5, <1>7, <1>8
  <2> QED BY <1>1, <1>7, <1>8, <2>1, Zenon DEF IInv, Timely
<1>15. Alone'
  <2> SUFFICES ASSUME NEW t \in Slot, t \notin overlapped', NEW i \in Inside(t)', NEW j \in Inside(t)'
               PROVE  i = j
    BY Zenon DEF Alone
  <2>1. \A i0 \in Inside(t)' : i0 \in Cpu /\ i0 # k /\ i0 \in Inside(t)
    BY <1>6, Zenon DEF Inside
  <2>2. CASE t = s
    BY <1>11, <2>1, <2>2, Zenon DEF Inside
  <2>3. CASE t # s
    BY <1>10, <2>1, <2>3, Zenon DEF IInv, Alone
  <2> QED BY <2>2, <2>3, Zenon
<1>16. \A t : t # s => (Solo(t)' <=> Solo(t))
  BY <1>10, Zenon DEF Solo
<1>17. jiffies' \in Nat /\ jiffies <= jiffies'
  BY <1>1, <1>4
<1>18. Counted'
  <2> SUFFICES ASSUME NEW t \in Slot, Solo(t)' PROVE SlotOK(t)'
    BY Zenon DEF Counted
  <2>1. CASE t # s
    BY <1>7, <1>8, <1>16, <1>17, <2>1, SlotKept, Zenon DEF IInv, Counted
  <2>2. CASE t = s
    <3>1. /\ flow_table'[t].byte_count = 0 /\ flow_table'[t].byte = 0 /\ accepted'[t] = 0 /\ born'[t] = 0
      BY <1>5, <1>7, <1>8, <2>2, Zenon
    <3>2. Allowance(t)' = 0
      BY <3>1, Zenon DEF Allowance
    <3>3. 0 < threshold + MaxLen /\ 0 < threshold + 2 * MaxLen + Allowance(t)' /\ 0 <= 0
      BY <3>2, ConstantTypes, LongestPacket
    <3> QED BY <3>1, <3>3, Zenon DEF SlotOK
  <2> QED BY <2>1, <2>2, Zenon
<1>19. Serving'
  <2> SUFFICES ASSUME NEW j \in Cpu, Solo(hook[j].slot)' PROVE CallOK(j)'
    BY Zenon DEF Serving
  <2>1. CASE j = k
    BY <1>6, <2>1, Zenon DEF CallOK
  <2>2. CASE j # k /\ hook[j].slot = s
    <3>1. hook'[j] = hook[j] /\ hook[j].pc = "idle"
      BY <1>6, <1>11, <2>2, Zenon DEF Solo
    <3> QED BY <3>1, Zenon DEF CallOK
  <2>3. CASE j # k /\ hook[j].slot # s
    <3>1. hook'[j] = hook[j] /\ hook[j].slot \in Slot /\ Solo(hook[j].slot)
      BY <1>6, <1>16, <2>3, CallTypes, Zenon DEF IInv
    <3>2. CallOK(j)
      BY <3>1, Zenon DEF IInv, Serving
    <3> QED BY <1>7, <1>17, <2>3, <3>1, <3>2, CallKept, Zenon DEF IInv
  <2> QED BY <2>1, <2>2, <2>3, Zenon
<1>20. Favoured'
  <2>1. \A t \in Slot \ revived' : flow_table'[t].byte_count <= accepted'[t]
    <3>1. flow_table'[s].byte_count <= accepted'[s]
      BY <1>5, <1>7, <1>8
    <3> QED BY <1>7, <1>8, <1>10, <3>1, Zenon DEF IInv, Favoured
  <2>2. ASSUME NEW j \in Cpu, hook'[j].pc = "count", hook'[j].slot \notin revived'
        PROVE  hook'[j].loaded <= accepted'[hook'[j].slot]
    <3>1. j # k /\ hook'[j] = hook[j] /\ hook[j].slot \in Slot
      BY <1>6, <2>2, CallTypes, Zenon DEF IInv
    <3>2. hook[j].slot # s
      BY <1>11, <2>2, <3>1, Zenon
    <3>3. hook[j].loaded <= accepted[hook[j].slot]
      <4>1. hook[j].pc = "count" /\ hook[j].slot \notin revived
        BY <1>10, <2>2, <3>1, <3>2, Zenon
      <4> QED BY <4>1, Zenon DEF IInv, Favoured
    <3>4. accepted'[hook[j].slot] = accepted[hook[j].slot]
      BY <1>8, <3>1, <3>2, Zenon
    <3> QED BY <3>1, <3>3, <3>4, Zenon
  <2> QED BY <2>1, <2>2, Zenon DEF Favoured
<1> QED BY <1>12, <1>13, <1>14, <1>15, <1>18, <1>19, <1>20, Zenon DEF IInv

LEMMA NextInv == IInv /\ [Next]_vars => IInv'
<1> SUFFICES ASSUME IInv, [Next]_vars PROVE IInv'
  OBVIOUS
<1>1. CASE UNCHANGED vars
  <2>1. UNCHANGED <<jiffies, flow_table, hook, packets, accepted, born, wrapped, overlapped, revived>>
    BY <1>1, Zenon DEF vars, history
  <2>2. (TypeOK' <=> TypeOK) /\ (Timely' <=> Timely) /\ (InHook' <=> InHook) /\ (Favoured' <=> Favoured)
    BY <2>1, Zenon DEF TypeOK, Timely, InHook, Favoured
  <2>3. Alone'
    BY <2>1, AloneKept, Zenon DEF IInv
  <2>4. \A s : (Solo(s)' <=> Solo(s)) /\ (SlotOK(s)' <=> SlotOK(s))
    BY <2>1, Zenon DEF Solo, SlotOK, Allowance
  <2>5. \A k : CallOK(k)' <=> CallOK(k)
    BY <2>1, Zenon DEF CallOK
  <2>6. Counted' /\ Serving'
    BY <2>1, <2>4, <2>5, Zenon DEF IInv, Counted, Serving
  <2> QED BY <2>2, <2>3, <2>6, Zenon DEF IInv
<1>2. ASSUME NEW k \in Cpu, out(k) PROVE IInv'
  BY <1>2, LeaveInv, ResetInv, Zenon
<1> QED BY <1>1, <1>2, EnterInv, DecideInv, CountInv, CountFreeInv, TickInv, Zenon DEF Next

LEMMA Inductive == Spec => []IInv
  BY InitInv, NextInv, PTL DEF Spec

-----------------------------------------------------------------------------
\* byte_count and byte keep their widths, and the hook runs on slots of the table.
THEOREM LimiterTypeOK == Spec => []TypeOK
<1>1. IInv => TypeOK
  BY Zenon DEF IInv
<1> QED BY <1>1, Inductive, PTL

\* The limit of the hook: a slot that one CPU at a time serves lets through the
\* threshold, what the rate has earned and at most two packets more; and lost
\* updates of byte_count only ever leave it below what was let through.
THEOREM RateIsBounded == Spec => []RateBound
<1>1. IInv => RateBound
  <2> SUFFICES ASSUME IInv, NEW s \in Slot
               PROVE  /\ s \notin wrapped \cup overlapped => accepted[s] < threshold + 2 * MaxLen + Allowance(s)
                      /\ s \notin revived => flow_table[s].byte_count <= accepted[s]
    BY Zenon DEF RateBound
  <2>1. s \notin wrapped \cup overlapped => accepted[s] < threshold + 2 * MaxLen + Allowance(s)
    BY Zenon DEF IInv, Counted, Solo, SlotOK
  <2> QED BY <2>1, Zenon DEF IInv, Favoured
<1> QED BY <1>1, Inductive, PTL

\* NF_DROP: a packet is dropped only if more than the rate allows was counted, or
\* byte_count has overflowed or been overwritten.
THEOREM DropsAreJustified == Spec => DropJustified
<1> DEFINE A == \A k \in Cpu : hook[k].pc = "check" /\ hook'[k].ret = "DROP" =>
                   LET f == flow_table[hook[k].slot] IN
                   \/ f.byte_count - f.byte > Grant(jiffies - f.time)
                   \/ hook[k].slot \in wrapped \cup overlapped
<1>1. IInv /\ [Next]_vars => [A]_vars
  <2> SUFFICES ASSUME IInv, Next, NEW k \in Cpu, hook[k].pc = "check", hook'[k].ret = "DROP",
                      Solo(hook[k].slot)
               PROVE  LET f == flow_table[hook[k].slot] IN f.byte_count - f.byte > Grant(jiffies - f.time)
    BY Zenon DEF Solo
  <2>1. hook[k].ret = "ACCEPT" /\ hook \in [Cpu -> Call] /\ hook[k].slot \in Slot
    BY CallTypes, Zenon DEF IInv, InHook, TypeOK
  <2>2. hook'[k] # hook[k]
    BY <2>1, Zenon
  <2>3. \A j \in Cpu : \A r : hook' = [hook EXCEPT ![j] = r] => j = k
    BY <2>1, <2>2, Zenon
  <2>4. ~tick
    BY <2>2, Zenon DEF tick
  <2>5. ~\E j \in Cpu, c \in Conn, len \in PayloadLen, fin \in BOOLEAN : rate_limit(j, c, len, fin)
    BY <2>3, Zenon DEF rate_limit
  <2>6. \A j \in Cpu : ~count(j) /\ ~count_free(j) /\ ~out(j)
    BY <2>3, Zenon DEF count, count_free, out
  <2>7. decide(k)
    BY <2>3, <2>4, <2>5, <2>6, Zenon DEF Next, decide
  <2>8. Exceeded(flow_table[hook[k].slot])
    BY <2>1, <2>7 DEF decide
  <2> QED BY <2>1, <2>8, ExceededIsReal, Zenon
<1> QED BY <1>1, Inductive, PTL DEF Spec, DropJustified

-----------------------------------------------------------------------------
(***************************************************************************)
(* xmerge.  Its theorems are about X!Spec, over variables of their own,    *)
(* and take X!MergeAssumption, the assumption of Xmerge on its constants,  *)
(* as a hypothesis.                                                        *)
(***************************************************************************)
CONSTANTS OutFile, InFile, MaxFiles, Room, PAGE_SIZE, INT_MAX
VARIABLES stage, infiles, oflags, size, index, outpos, inpos, opened, fs, got, bytecount, filecount,
          ofile_count, result, total, written, faults

X == INSTANCE Xmerge WITH pc <- stage, len <- size, x <- index, open <- opened, read <- got, MaxLen <- Room

Files == Len(infiles)

FilesOK == infiles \in [1 .. Files -> X!File] /\ size \in [X!File -> Int]

MergeTypes ==
    /\ Files \in Nat /\ FilesOK
    /\ index \in Nat \ {0} /\ index <= Files + 1
    /\ outpos \in Int /\ inpos \in Int /\ got \in Nat
    /\ filecount \in Nat /\ ofile_count \in Nat
    /\ total \in Nat /\ written \in Nat

\* An input file is open.
Busy == stage = "read" \/ stage = "write" \/ stage = "end"

\* The counters agree with what has been read and written so far.
Tallied ==
    /\ total <= INT_MAX => bytecount = total
    /\ filecount = index - 1
    /\ "lost" \notin faults => ofile_count = filecount
    /\ "short" \notin faults /\ "failed" \notin faults => total = IF stage = "write" THEN written + got ELSE written
    /\ Busy => index <= Files

\* How the call can have ended.
Ended ==
    /\ stage # "done" => "failed" \notin faults
    /\ stage = "done" /\ "failed" \in faults => result = X!ERR
    /\ stage = "done" /\ "failed" \notin faults => result = bytecount /\ index = Files + 1

\* Which descriptors are open where.
Held ==
    /\ stage = "main" \/ stage = "open" \/ stage = "done" => opened = {}
    /\ stage = "next" => opened = {"out"}
    /\ Busy => opened = {"out", "in"}
    /\ stage = "main" \/ stage = "done" => fs = "USER_DS"

MergeInv == MergeTypes /\ Tallied /\ Ended /\ Held

-----------------------------------------------------------------------------
\* An int holds every count from 0 to INT_MAX unchanged.
LEMMA ToIntFits ==
    ASSUME X!MergeAssumption, NEW n \in Nat, n <= INT_MAX
    PROVE  X!ToInt(n) = n
<1>1. INT_MAX \in Nat
  BY DEF X!MergeAssumption
<1>2. (n + INT_MAX + 1) % (2 * (INT_MAX + 1)) = n + INT_MAX + 1
  BY <1>1
<1> QED
  BY <1>1, <1>2 DEF X!ToInt

LEMMA MergeInit == ASSUME X!MergeAssumption PROVE X!Init => MergeInv
<1> SUFFICES ASSUME X!Init PROVE MergeInv
  OBVIOUS
<1>1. Files \in Nat /\ infiles \in [1 .. Files -> X!File]
  <2>1. infiles \in X!SeqOf(X!File, MaxFiles) /\ MaxFiles \in Nat
    BY DEF X!MergeAssumption, X!Init
  <2> QED
    BY <2>1 DEF X!SeqOf, Files
<1>2. size \in [X!File -> Int]
  BY DEF X!MergeAssumption, X!Init
<1> QED
  BY <1>1, <1>2 DEF X!Init, MergeInv, MergeTypes, Tallied, Ended, Held, Busy, FilesOK

\* The parameters do not change during the call.
LEMMA SameFiles == ASSUME X!MergeAssumption, UNCHANGED X!params PROVE Files' = Files /\ infiles' = infiles
  BY DEF Files, X!params

-----------------------------------------------------------------------------
\* One lemma per step of the system call, and one for the other process.
LEMMA CallInv == ASSUME X!MergeAssumption PROVE MergeInv /\ X!xmerge => MergeInv'
<1> SUFFICES ASSUME MergeInv, X!xmerge PROVE MergeInv'
  OBVIOUS
<1>1. Files' = Files /\ infiles' = infiles
  BY SameFiles DEF X!xmerge
<1>2. FilesOK'
  BY <1>1 DEF MergeInv, MergeTypes, FilesOK, X!xmerge, X!fileVars
<1>3. MergeTypes' /\ Tallied'
  BY <1>1, <1>2 DEF MergeInv, MergeTypes, Tallied, Ended, Busy, X!xmerge, X!Return, X!Fault, X!fileVars, X!counts
<1>4. Ended' /\ Held'
  BY <1>1 DEF MergeInv, MergeTypes, Ended, Held, Busy, X!xmerge, X!Return, X!Fault, X!fileVars, X!counts
<1> QED
  BY <1>3, <1>4 DEF MergeInv

LEMMA OpenOutInv == ASSUME X!MergeAssumption PROVE MergeInv /\ X!open_out => MergeInv'
<1> SUFFICES ASSUME MergeInv, X!open_out PROVE MergeInv'
  OBVIOUS
<1>1. Files' = Files /\ infiles' = infiles
  BY SameFiles DEF X!open_out
<1>2. FilesOK'
  BY <1>1 DEF MergeInv, MergeTypes, FilesOK, X!open_out, X!File
<1>3. MergeTypes' /\ Tallied'
  BY <1>1, <1>2 DEF MergeInv, MergeTypes, Tallied, Ended, Busy, X!open_out, X!Return, X!Fault, X!counts
<1>4. Ended' /\ Held'
  BY <1>1, <1>2 DEF MergeInv, MergeTypes, Ended, Held, Busy, X!open_out, X!Return, X!Fault, X!counts
<1> QED
  BY <1>3, <1>4 DEF MergeInv

LEMMA OpenInInv == ASSUME X!MergeAssumption PROVE MergeInv /\ X!open_in => MergeInv'
<1> SUFFICES ASSUME MergeInv, X!open_in PROVE MergeInv'
  OBVIOUS
<1>1. Files' = Files /\ infiles' = infiles
  BY SameFiles DEF X!open_in
<1>2. FilesOK'
  BY <1>1 DEF MergeInv, MergeTypes, FilesOK, X!open_in
<1>3. /\ stage = "next"
      /\ \/ index > Files /\ X!Return(bytecount, {"out"}) /\ UNCHANGED <<inpos, faults>>
         \/ /\ ~(index > Files)
            /\ stage' = "read" /\ opened' = {"out", "in"} /\ inpos' = 0
            /\ UNCHANGED <<fs, result, faults>>
         \/ X!Return(X!ERR, {"out"}) /\ X!Fault("failed") /\ UNCHANGED inpos
      /\ UNCHANGED <<size, outpos, index, got, X!counts, total, written>>
  BY DEF X!open_in, Files
<1>4. MergeTypes' /\ Tallied'
  BY <1>1, <1>2, <1>3 DEF MergeInv, MergeTypes, Tallied, Ended, Busy, X!Return, X!Fault, X!counts
<1>5. Ended' /\ Held'
  BY <1>1, <1>3 DEF MergeInv, MergeTypes, Ended, Held, Busy, X!Return, X!Fault, X!counts
<1> QED
  BY <1>4, <1>5 DEF MergeInv

LEMMA ReadInv == ASSUME X!MergeAssumption PROVE MergeInv /\ X!read_in => MergeInv'
<1> SUFFICES ASSUME MergeInv, X!read_in PROVE MergeInv'
  OBVIOUS
<1> DEFINE n == X!Smaller(PAGE_SIZE, X!Available)
<1>1. Files' = Files /\ infiles' = infiles
  BY SameFiles DEF X!read_in
<1>2. FilesOK'
  BY <1>1 DEF MergeInv, MergeTypes, FilesOK, X!read_in
<1>3. n \in Int
  <2>1. infiles[index] \in X!File
    <3>1. index \in 1 .. Files
      <4>1. stage = "read"
        BY DEF X!read_in
      <4> QED
        BY <4>1 DEF MergeInv, MergeTypes, Tallied, Busy
    <3> QED
      BY <3>1 DEF MergeInv, MergeTypes, FilesOK
  <2>2. X!Available \in Int
    BY <2>1 DEF MergeInv, MergeTypes, FilesOK, X!Available
  <2> QED
    BY <2>2 DEF X!MergeAssumption, X!Smaller
<1>4. \/ /\ n > 0 /\ stage' = "write" /\ got' = n /\ inpos' = inpos + n
         /\ bytecount' = X!CountRead(n) /\ total' = total + n
         /\ UNCHANGED <<opened, fs, result, faults>>
      \/ /\ stage' = "end"
         /\ UNCHANGED <<got, inpos, bytecount, total, opened, fs, result, faults>>
      \/ /\ X!Return(X!ERR, {"out", "in"}) /\ X!Fault("failed")
         /\ UNCHANGED <<got, inpos, bytecount, total>>
  BY DEF X!read_in
<1>5. stage = "read" /\ UNCHANGED <<size, outpos, index, filecount, ofile_count, written>>
  BY DEF X!read_in
<1> HIDE DEF n
<1>6. total' \in Nat /\ got' \in Nat /\ inpos' \in Int
  BY <1>3, <1>4 DEF MergeInv, MergeTypes, X!Return
<1>7. total' <= INT_MAX => bytecount' = total'
  <2> SUFFICES ASSUME total' <= INT_MAX, total' = total + n, n > 0, bytecount' = X!CountRead(n)
               PROVE  bytecount' = total'
    BY <1>4 DEF MergeInv, Tallied
  <2>1. total + n \in Nat /\ total <= INT_MAX
    BY <1>3 DEF X!MergeAssumption, MergeInv, MergeTypes
  <2>2. X!ToInt(total + n) = total + n
    BY <2>1, ToIntFits
  <2>3. bytecount = total
    BY <2>1 DEF MergeInv, Tallied
  <2> QED
    BY <2>2, <2>3 DEF X!CountRead
<1>8. MergeTypes' /\ Tallied'
  BY <1>1, <1>2, <1>3, <1>4, <1>5, <1>6, <1>7 DEF MergeInv, MergeTypes, Tallied, Ended, Busy, X!Return, X!Fault
<1>9. Ended' /\ Held'
  BY <1>1, <1>4, <1>5 DEF MergeInv, MergeTypes, Ended, Held, Busy, X!Return, X!Fault
<1> QED
  BY <1>8, <1>9 DEF MergeInv

LEMMA WriteInv == ASSUME X!MergeAssumption PROVE MergeInv /\ X!write_out => MergeInv'
<1> SUFFICES ASSUME MergeInv, X!write_out PROVE MergeInv'
  OBVIOUS
<1> DEFINE at == IF "APPEND" \in oflags THEN size[OutFile] ELSE outpos
<1>1. Files' = Files /\ infiles' = infiles
  BY SameFiles DEF X!write_out
<1>2. at \in Int /\ Room \in Nat
  BY DEF X!MergeAssumption, MergeInv, MergeTypes, FilesOK, X!File
<1>3. stage = "write" /\ UNCHANGED <<inpos, index, got, X!counts, total>>
  BY DEF X!write_out
<1>4. CASE \E n \in 1 .. X!Smaller(got, Room - at) :
              /\ size' = [size EXCEPT ![OutFile] = IF at + n > @ THEN at + n ELSE @]
              /\ outpos' = at + n /\ written' = written + n
              /\ stage' = "read"
              /\ IF n < got THEN X!Fault("short") ELSE UNCHANGED faults
              /\ UNCHANGED <<opened, fs, result>>
  <2> HIDE DEF at
  <2>1. PICK n \in 1 .. X!Smaller(got, Room - at) :
              /\ size' = [size EXCEPT ![OutFile] = IF at + n > @ THEN at + n ELSE @]
              /\ outpos' = at + n /\ written' = written + n
              /\ stage' = "read"
              /\ IF n < got THEN X!Fault("short") ELSE UNCHANGED faults
              /\ UNCHANGED <<opened, fs, result>>
    BY <1>4
  <2>2. n \in Nat /\ n <= got
    BY <1>2, <2>1 DEF X!Smaller, MergeInv, MergeTypes
  <2>3. FilesOK' /\ outpos' \in Int
    BY <1>1, <1>2, <2>1, <2>2 DEF MergeInv, MergeTypes, FilesOK, X!File
  <2>4. MergeTypes' /\ Tallied'
    BY <1>1, <1>3, <2>1, <2>2, <2>3 DEF MergeInv, MergeTypes, Tallied, Ended, Busy, X!Fault, X!counts
  <2>5. Ended' /\ Held'
    BY <1>1, <1>3, <2>1 DEF MergeInv, MergeTypes, Ended, Held, Busy, X!Fault, X!counts
  <2> QED
    BY <2>4, <2>5 DEF MergeInv
<1>5. CASE X!WriteFailed /\ X!Fault("failed") /\ UNCHANGED <<size, outpos, written>>
  <2>1. FilesOK'
    BY <1>1, <1>5 DEF MergeInv, MergeTypes, FilesOK
  <2>2. MergeTypes' /\ Tallied'
    BY <1>1, <1>3, <1>5, <2>1
       DEF MergeInv, MergeTypes, Tallied, Ended, Busy, X!WriteFailed, X!Return, X!Fault, X!counts
  <2>3. Ended' /\ Held'
    BY <1>1, <1>3, <1>5 DEF MergeInv, MergeTypes, Ended, Held, Busy, X!WriteFailed, X!Return, X!Fault, X!counts
  <2> QED
    BY <2>2, <2>3 DEF MergeInv
<1> QED
  BY <1>4, <1>5 DEF X!write_out

LEMMA FileEndInv == ASSUME X!MergeAssumption PROVE MergeInv /\ X!file_end => MergeInv'
<1> SUFFICES ASSUME MergeInv, X!file_end PROVE MergeInv'
  OBVIOUS
<1>1. Files' = Files /\ infiles' = infiles
  BY SameFiles DEF X!file_end
<1>2. FilesOK'
  BY <1>1 DEF MergeInv, MergeTypes, FilesOK, X!file_end, X!fileVars
<1>3. MergeTypes' /\ Tallied'
  BY <1>1, <1>2 DEF MergeInv, MergeTypes, Tallied, Ended, Busy, X!file_end, X!Fault, X!fileVars
<1>4. Ended' /\ Held'
  BY <1>1 DEF MergeInv, MergeTypes, Ended, Held, Busy, X!file_end, X!Fault, X!fileVars
<1> QED
  BY <1>3, <1>4 DEF MergeInv

LEMMA GrowsInv == ASSUME X!MergeAssumption, NEW f \in InFile PROVE MergeInv /\ X!input_grows(f) => MergeInv'
<1> SUFFICES ASSUME MergeInv, X!input_grows(f) PROVE MergeInv'
  OBVIOUS
<1>1. Files' = Files /\ infiles' = infiles
  BY SameFiles DEF X!input_grows
<1>2. FilesOK'
  BY <1>1 DEF MergeInv, MergeTypes, FilesOK, X!input_grows, X!File
<1>3. MergeTypes' /\ Tallied'
  BY <1>1, <1>2 DEF MergeInv, MergeTypes, Tallied, Ended, Busy, X!input_grows, X!counts, X!history
<1>4. Ended' /\ Held'
  BY <1>1, <1>2 DEF MergeInv, MergeTypes, Ended, Held, Busy, X!input_grows, X!counts, X!history
<1> QED
  BY <1>3, <1>4 DEF MergeInv

LEMMA MergeNext == ASSUME X!MergeAssumption PROVE MergeInv /\ [X!Next]_(X!vars) => MergeInv'
<1> SUFFICES ASSUME MergeInv, [X!Next]_(X!vars) PROVE MergeInv'
  OBVIOUS
<1>1. CASE UNCHANGED X!vars
  <2>1. Files' = Files /\ infiles' = infiles
    BY <1>1, SameFiles DEF X!vars
  <2> QED
    BY <1>1, <2>1
       DEF X!vars, X!fileVars, X!counts, X!history, MergeInv, MergeTypes, FilesOK, Tallied, Ended, Held, Busy
<1> QED
  BY <1>1, CallInv, OpenOutInv, OpenInInv, ReadInv, WriteInv, FileEndInv, GrowsInv DEF X!Next

LEMMA MergeInvariant == ASSUME X!MergeAssumption PROVE X!Spec => []MergeInv
  BY MergeInit, MergeNext, PTL DEF X!Spec

-----------------------------------------------------------------------------
\* What xmerge returns and stores: a result that is not negative means that no
\* call failed, and it counts the bytes; ofile_count counts the files.
THEOREM ResultIsHonest == ASSUME X!MergeAssumption PROVE X!Spec => []X!ResultHonest
<1>1. MergeInv => X!ResultHonest
  <2> SUFFICES ASSUME MergeInv, stage = "done" PROVE X!ResultHonest
    BY DEF X!ResultHonest
  <2>1. filecount = index - 1 /\ Files \in Nat
    BY DEF MergeInv, MergeTypes, Tallied
  <2>2. "failed" \notin faults => filecount = Files
    BY <2>1 DEF MergeInv, Ended
  <2>3. "failed" \notin faults => filecount = Len(infiles)
    BY <2>2 DEF Files
  <2>4. /\ total <= INT_MAX => (result >= 0 <=> "failed" \notin faults)
        /\ "failed" \notin faults /\ total <= INT_MAX => result = total
    <3>1. total \in Nat /\ INT_MAX \in Nat
      BY DEF X!MergeAssumption, MergeInv, MergeTypes
    <3>2. "failed" \in faults => result = -1
      BY DEF MergeInv, Ended, X!ERR
    <3>3. "failed" \notin faults /\ total <= INT_MAX => result = total
      BY DEF MergeInv, Tallied, Ended
    <3> QED
      BY <3>1, <3>2, <3>3
  <2>5. /\ faults \cap {"short", "failed"} = {} => written = total
        /\ "lost" \notin faults => ofile_count = index - 1
    BY DEF MergeInv, MergeTypes, Tallied
  <2> QED
    BY <2>3, <2>4, <2>5 DEF X!ResultHonest
<1> QED
  BY <1>1, MergeInvariant, PTL

\* The error paths of xmerge.c: whichever call failed, the system call returns
\* with both descriptors closed and the address limit restored.
THEOREM NothingLeftOpen == ASSUME X!MergeAssumption PROVE X!Spec => [](stage = "done" => opened = {} /\ fs = "USER_DS")
<1>1. MergeInv => (stage = "done" => opened = {} /\ fs = "USER_DS")
  BY DEF MergeInv, Held
<1> QED
  BY <1>1, MergeInvariant, PTL
=============================================================================
