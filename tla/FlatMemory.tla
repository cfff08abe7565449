----------------------------- MODULE FlatMemory -----------------------------
(***************************************************************************)
(* What guest memory promises to the rest of the emulator, with no pages,  *)
(* no host buffers and no byte swapping: a partial function from guest     *)
(* addresses to bytes, big-endian multi-byte accesses that are all or      *)
(* nothing, byte blocks that stop at the first unmapped byte, and mappings *)
(* that never disturb a byte that is already mapped.                       *)
(***************************************************************************)
EXTENDS Integers

CONSTANTS
  Byte,       \* the byte values a run tells apart
  Zero,       \* the value of a byte that was mapped and never written
  Regions,    \* index -> [start, size]: the mapping requests of the program
  Accesses,   \* the <<address, width>> pairs of read8..read64, write8..write64
  Words       \* the values stored: functions from 0..width-1 to Byte, lane 0 least significant

VARIABLES
  mem,        \* mapped address -> byte
  tag,        \* mapped address -> index of the request that mapped it
  ret,        \* outcome of the last operation
  running     \* FALSE once an access has left its region (no further promise)

vars == <<mem, tag, ret, running>>

Extent(r) == Regions[r].start .. (Regions[r].start + Regions[r].size - 1)

Failed  == [ok |-> FALSE]
Done    == [ok |-> TRUE]
Got(w)  == [ok |-> TRUE, value |-> w]

(* The bytes a..a+n-1 lie in the extent one request mapped. *)
Inside(a, n) == \E r \in DOMAIN Regions :
                  \A b \in a .. (a + n - 1) : b \in DOMAIN mem /\ tag[b] = r

Init == /\ mem = [a \in {} |-> Zero]
        /\ tag = [a \in {} |-> 0]
        /\ ret = Done
        /\ running = TRUE

(* A request whose first byte is mapped is refused; any other one finds its *)
(* whole extent unmapped and maps it, zeroed.                               *)
Map(r) ==
  \/ /\ Regions[r].start \in DOMAIN mem
     /\ ret' = Failed
     /\ UNCHANGED <<mem, tag, running>>
  \/ /\ Extent(r) \cap DOMAIN mem = {}
     /\ mem' = [a \in DOMAIN mem \cup Extent(r) |->
                  IF a \in DOMAIN mem THEN mem[a] ELSE Zero]
     /\ tag' = [a \in DOMAIN mem \cup Extent(r) |->
                  IF a \in DOMAIN mem THEN tag[a] ELSE r]
     /\ ret' = Done
     /\ UNCHANGED running

BigEndian(a, n) == [lane \in 0 .. (n - 1) |-> mem[a + n - 1 - lane]]

Load(a, n) ==
  /\ UNCHANGED <<mem, tag>>
  /\ \/ a \notin DOMAIN mem /\ ret' = Failed /\ UNCHANGED running
     \/ Inside(a, n) /\ ret' = Got(BigEndian(a, n)) /\ UNCHANGED running
     \/ a \in DOMAIN mem /\ ~Inside(a, n) /\ running' = FALSE /\ UNCHANGED ret

Store(a, n, w) ==
  /\ UNCHANGED tag
  /\ \/ a \notin DOMAIN mem /\ ret' = Failed /\ UNCHANGED <<mem, running>>
     \/ /\ Inside(a, n)
        /\ mem' = [b \in DOMAIN mem |->
                     IF b \in a .. (a + n - 1) THEN w[a + n - 1 - b] ELSE mem[b]]
        /\ ret' = Done
        /\ UNCHANGED running
     \/ /\ a \in DOMAIN mem /\ ~Inside(a, n)
        /\ running' = FALSE /\ UNCHANGED <<mem, ret>>

(* A block in guest byte order: w[i] goes to a+i, for every i before the first *)
(* unmapped address; the outcome tells whether the whole block was written.    *)
Reached(a, n) == {i \in 0 .. (n - 1) : \A j \in 0 .. i : a + j \in DOMAIN mem}

Written(a, n, w) == [b \in DOMAIN mem |->
                       IF b - a \in Reached(a, n) THEN w[b - a] ELSE mem[b]]

StoreBlock(a, n, w) ==
  /\ mem' = Written(a, n, w)
  /\ ret' = [ok |-> Reached(a, n) = 0 .. (n - 1)]
  /\ UNCHANGED <<tag, running>>

LoadBlock(a, n) ==
  /\ ret' = IF Reached(a, n) = 0 .. (n - 1)
              THEN Got([i \in 0 .. (n - 1) |-> mem[a + i]])
              ELSE Failed
  /\ UNCHANGED <<mem, tag, running>>

(* A block write that may not fail: the emulator dies at an unmapped byte. *)
ForceBlock(a, n, w) ==
  /\ mem' = Written(a, n, w)
  /\ running' = (Reached(a, n) = 0 .. (n - 1))
  /\ UNCHANGED <<tag, ret>>

Access(a, n) ==
  \/ Load(a, n)
  \/ LoadBlock(a, n)
  \/ \E w \in Words :
       /\ DOMAIN w = 0 .. (n - 1)
       /\ Store(a, n, w) \/ StoreBlock(a, n, w) \/ ForceBlock(a, n, w)

Next == /\ running
        /\ \/ \E r \in DOMAIN Regions : Map(r)
           \/ \E acc \in Accesses : Access(acc[1], acc[2])

Spec == Init /\ [][Next]_vars
=============================================================================
