--------------------------- MODULE ProcessProofs ----------------------------
(***************************************************************************)
(* What a process captures, and how it ends.                               *)
(*                                                                         *)
(* The captured bodies, for any requests and any limits: no capture is over *)
(* the budget, what is replayed is what was sent, and nothing is left.     *)
(*                                                                         *)
(* The life of the process, for any callers of JoinCluster and Close and any *)
(* servers: no memberlist outlives Close, gossip does not precede the peer *)
(* server, and the process ends with nothing open.                         *)
(*                                                                         *)
(* The budget is a sum over the captures (the sums of DataProofs).         *)
(***************************************************************************)
EXTENDS BodyReplay, Lifecycle, DataProofs

\* The provers, and the time each is given for a leaf.
USE ZenonT(10), SMTT(30)

-----------------------------------------------------------------------------
(* The capture of bodies                                                   *)

\* What a body keeps is reserved, and memory holds little of it.
Backed(q) ==
  /\ stage[q] # "closed" => Kept(q) <= reserved[q]
  /\ buffer[q] <= Smaller(Limit, Memory)

\* A closed body keeps nothing, and what is sent again is the whole body.
Settled(q) ==
  /\ stage[q] = "closed" =>
       reserved[q] = 0 /\ buffer[q] = 0 /\ disk[q] = 0 /\ file[q] = "none"
  /\ stage[q] = "resending" =>
       data[q] = size[q] /\ (file[q] # "none" => disk[q] = size[q])

\* What the invariant says of one body.
BodyOf(q) == Tallied(q) /\ Staged(q) /\ Reserving(q) /\ Backed(q) /\ Settled(q)

\* The values of a body.
Typed(q) ==
  /\ stage[q] \in {"new", "sending", "resending", "closing", "closed"}
  /\ size[q] \in 1..MaxBody /\ known[q] \in BOOLEAN
  /\ reader[q] \in {"off", "idle", "fetched", "reserving", "storing"}
  /\ fetched[q] \in [bytes : 0..MaxBody, eof : BOOLEAN]
  /\ read[q] \in 0..MaxBody /\ buffer[q] \in 0..MaxBody /\ disk[q] \in 0..MaxBody
  /\ file[q] \in {"none", "open", "closed"}
  /\ complete[q] \in BOOLEAN /\ overflow[q] \in BOOLEAN /\ sealed[q] \in BOOLEAN
  /\ reserved[q] \in Nat
  /\ loaded[q] \in Nat \cup {-1} /\ data[q] \in Nat \cup {-1}

\* Each variable has a value for each body.
Shaped ==
  /\ stage = [q \in Bodies |-> stage[q]] /\ size = [q \in Bodies |-> size[q]]
  /\ known = [q \in Bodies |-> known[q]] /\ reader = [q \in Bodies |-> reader[q]]
  /\ fetched = [q \in Bodies |-> fetched[q]] /\ read = [q \in Bodies |-> read[q]]
  /\ buffer = [q \in Bodies |-> buffer[q]] /\ file = [q \in Bodies |-> file[q]]
  /\ disk = [q \in Bodies |-> disk[q]] /\ complete = [q \in Bodies |-> complete[q]]
  /\ overflow = [q \in Bodies |-> overflow[q]] /\ sealed = [q \in Bodies |-> sealed[q]]
  /\ reserved = [q \in Bodies |-> reserved[q]] /\ loaded = [q \in Bodies |-> loaded[q]]
  /\ data = [q \in Bodies |-> data[q]]

\* A step leaves the body q alone.
Untold(q) ==
  /\ stage'[q] = stage[q] /\ size'[q] = size[q] /\ known'[q] = known[q]
  /\ reader'[q] = reader[q] /\ fetched'[q] = fetched[q] /\ read'[q] = read[q]
  /\ buffer'[q] = buffer[q] /\ file'[q] = file[q] /\ disk'[q] = disk[q]
  /\ complete'[q] = complete[q] /\ overflow'[q] = overflow[q]
  /\ sealed'[q] = sealed[q] /\ reserved'[q] = reserved[q]
  /\ loaded'[q] = loaded[q] /\ data'[q] = data[q]

BodyParts ==
  Shaped /\ BudgetExact /\ used \in Nat /\ \A q \in Bodies : Typed(q) /\ BodyOf(q)

\* The invariant is of the budget and of each body by itself.
LEMMA BodyInvParts == BodyInv <=> BodyParts
<1>1. BodyTypeOK <=> Shaped /\ used \in Nat /\ \A q \in Bodies : Typed(q)
  <2>1. BodyTypeOK => Shaped
    BY DEF BodyTypeOK, Shaped
  <2>2. BodyTypeOK => used \in Nat /\ \A q \in Bodies : Typed(q)
    BY DEF BodyTypeOK, Typed
  <2>3. Shaped /\ used \in Nat /\ (\A q \in Bodies : Typed(q)) => BodyTypeOK
    BY DEF BodyTypeOK, Shaped, Typed
  <2> QED BY <2>1, <2>2, <2>3
<1>2. KeptReserved /\ NothingLeft /\ ReplayWhole
      /\ (\A q \in Bodies : Tallied(q) /\ Staged(q) /\ Reserving(q))
      <=> \A q \in Bodies : BodyOf(q)
  BY Zenon DEF KeptReserved, NothingLeft, ReplayWhole, BodyOf, Backed, Settled
<1> QED BY <1>1, <1>2, Zenon DEF BodyInv, CaptureBounded, BodyParts

\* A step that leaves a body alone keeps what the invariant says of it.
LEMMA UntoldSame ==
  ASSUME NEW r \in Bodies, Typed(r), BodyOf(r), Untold(r)
  PROVE  Typed(r)' /\ BodyOf(r)'
<1>1. Typed(r)'
  BY DEF Untold, Typed
<1>2. Tallied(r)'
  BY DEF Untold, BodyOf, Tallied, ReadNow
<1>3. Staged(r)'
  BY DEF Untold, BodyOf, Staged, Untouched, ReadNow, Unlocked, Recording
<1>4. Reserving(r)'
  BY DEF Untold, BodyOf, Reserving, ReadNow, Additional
<1>5. BodyOf(r)'
  BY <1>2, <1>3, <1>4 DEF Untold, BodyOf, Backed, Settled, Kept
<1> QED BY <1>1, <1>5

\* A step of one body that leaves the others alone keeps the invariant when it
\* keeps it of that body and keeps the budget.
LEMMA BodyLocal ==
  ASSUME NEW q \in Bodies, BodyInv,
         Shaped', Typed(q)', BodyOf(q)', BudgetExact', used' \in Nat,
         \A r \in Bodies \ {q} : Untold(r)
  PROVE  BodyInv'
<1>1. ASSUME NEW r \in Bodies
      PROVE  Typed(r)' /\ BodyOf(r)'
  BY BodyInvParts, UntoldSame DEF BodyParts
<1>2. BodyParts'
  BY <1>1 DEF BodyParts
<1> QED BY <1>2, BodyInvParts, PTL

\* A step that reserves and releases nothing keeps the budget.
LEMMA BudgetSame ==
  ASSUME BodyInv, UNCHANGED <<reserved, used>>
  PROVE  BudgetExact' /\ used' \in Nat
<1>1. used = Total(reserved, Bodies) /\ used <= Budget /\ used \in Nat
  BY DEF BodyInv, CaptureBounded, BodyTypeOK, BudgetExact, Total
<1>2. used' = Total(reserved', Bodies) /\ used' <= Budget /\ used' \in Nat
  BY <1>1
<1> QED BY <1>2 DEF BudgetExact, Total, MapThenSumSet, MapThenFoldSet

\* What an exact budget is told about one body's reservation it stays exact by.
LEMMA BudgetMoves ==
  ASSUME BodyInv, NEW q \in Bodies, NEW v \in Nat,
         reserved' = [reserved EXCEPT ![q] = v], used' = used - reserved[q] + v,
         used - reserved[q] + v <= Budget
  PROVE  BudgetExact' /\ used' \in Nat
<1>1. reserved \in [Bodies -> Nat] /\ IsFiniteSet(Bodies) /\ used = Total(reserved, Bodies)
  BY BodyAssumption DEF BodyInv, CaptureBounded, BodyTypeOK, BudgetExact, Total
<1>2. reserved' \in [Bodies -> Nat]
  BY <1>1
<1>3. used' = Total(reserved', Bodies)
  <2>1. PICK f : f = reserved
    OBVIOUS
  <2>2. PICK g : g = reserved'
    OBVIOUS
  <2>3. /\ f \in [Bodies -> Nat] /\ g \in [Bodies -> Nat]
        /\ g[q] = v /\ \A r \in Bodies \ {q} : f[r] = g[r]
    BY <1>1, <1>2, <2>1, <2>2
  <2>4. Total(g, Bodies) = Total(f, Bodies) - f[q] + g[q]
    BY <1>1, <2>3, TotalPut, SMT
  <2> QED BY <1>1, <2>1, <2>2, <2>3, <2>4
<1>4. Total(reserved', Bodies) \in Nat
  BY <1>1, <1>2, TotalNat
<1>5. used' <= Budget
  OBVIOUS
<1> QED BY <1>3, <1>4, <1>5 DEF BudgetExact, Total, MapThenSumSet, MapThenFoldSet

\* CompareAndSwap takes what was looked for, which there still is.
LEMMA BudgetSwap ==
  ASSUME BodyInv, NEW q \in Bodies, NEW n \in Int, reserved[q] + n \in Nat,
         Swap(q, n), loaded[q] + n <= Budget
  PROVE  BudgetExact' /\ used' \in Nat
<1>1. reserved[q] \in Nat /\ used \in Nat
  BY DEF BodyInv, CaptureBounded, BodyTypeOK
<1>2. /\ reserved' = [reserved EXCEPT ![q] = reserved[q] + n]
      /\ used' = used - reserved[q] + (reserved[q] + n)
      /\ used - reserved[q] + (reserved[q] + n) <= Budget
  BY <1>1 DEF Swap
<1> QED BY <1>2, BudgetMoves

\* releaseReservationLocked returns what was taken.
LEMMA BudgetRelease ==
  ASSUME BodyInv, NEW q \in Bodies, ReleaseReservation(q)
  PROVE  BudgetExact' /\ used' \in Nat
<1>1. reserved[q] \in Nat /\ used \in Nat /\ Budget \in Nat /\ used <= Budget
  BY BodyAssumption DEF BodyInv, CaptureBounded, BodyTypeOK, BudgetExact
<1>2. /\ reserved' = [reserved EXCEPT ![q] = 0]
      /\ used' = used - reserved[q] + 0
      /\ used - reserved[q] + 0 <= Budget
  BY <1>1 DEF ReleaseReservation
<1> QED BY <1>2, BudgetMoves

\* Abbreviations that the rest of this section always expands.
USE DEF capture, Recording, ReadNow, Additional, Unlocked, Untouched

\* A body that is not recorded is discarded from the start.
LEMMA BeginUncapturedKeeps ==
  ASSUME BodyInv, NEW q \in Bodies, BeginUncaptured(q)
  PROVE  BodyInv'
<1>1. Shaped /\ Typed(q) /\ BodyOf(q) /\ used \in Nat
  BY BodyInvParts DEF BodyParts
<1>2. BudgetExact' /\ used' \in Nat
  BY BudgetSame DEF BeginUncaptured
<1>3. Shaped' /\ \A r \in Bodies \ {q} : Untold(r)
  BY <1>1 DEF Shaped, Untold, BeginUncaptured
<1>4. Typed(q)'
  BY <1>1, BodyAssumption DEF Shaped, Typed, BodyOf, Tallied, BeginUncaptured
<1>5. Tallied(q)'
  BY <1>1, BodyAssumption DEF Shaped, Typed, BodyOf, Tallied, Staged, BeginUncaptured
<1>6. Staged(q)'
  BY <1>1, BodyAssumption
  DEF Shaped, Typed, BodyOf, Tallied, Staged, Reserving, BeginUncaptured
<1>7. Reserving(q)'
  BY <1>1, BodyAssumption DEF Shaped, Typed, BodyOf, Staged, Reserving, BeginUncaptured
<1>8. Backed(q)'
  BY <1>1, <1>5, BodyAssumption
  DEF Shaped, Typed, BodyOf, Tallied, Staged, Backed, Kept, Smaller, BeginUncaptured
<1>9. Settled(q)'
  BY <1>1, <1>5, BodyAssumption
  DEF Shaped, Typed, BodyOf, Tallied, Staged, Settled, BeginUncaptured
<1> QED BY <1>2, <1>3, <1>4, <1>5, <1>6, <1>7, <1>8, <1>9, BodyLocal DEF BodyOf

\* A body of unknown length starts with nothing read and nothing reserved.
LEMMA BeginUnknownKeeps ==
  ASSUME BodyInv, NEW q \in Bodies, BeginUnknown(q)
  PROVE  BodyInv'
<1>1. Shaped /\ Typed(q) /\ BodyOf(q) /\ used \in Nat
  BY BodyInvParts DEF BodyParts
<1>2. BudgetExact' /\ used' \in Nat
  BY BudgetSame DEF BeginUnknown
<1>3. Shaped' /\ \A r \in Bodies \ {q} : Untold(r)
  BY <1>1 DEF Shaped, Untold, BeginUnknown
<1>4. Typed(q)'
  BY <1>1, BodyAssumption DEF Shaped, Typed, BodyOf, Tallied, BeginUnknown
<1>5. Tallied(q)'
  BY <1>1, BodyAssumption DEF Shaped, Typed, BodyOf, Tallied, Staged, BeginUnknown
<1>6. Staged(q)'
  BY <1>1, BodyAssumption
  DEF Shaped, Typed, BodyOf, Tallied, Staged, Reserving, BeginUnknown
<1>7. Reserving(q)'
  BY <1>1, BodyAssumption DEF Shaped, Typed, BodyOf, Staged, Reserving, BeginUnknown
<1>8. Backed(q)'
  BY <1>1, <1>5, BodyAssumption
  DEF Shaped, Typed, BodyOf, Tallied, Staged, Backed, Kept, Smaller, BeginUnknown
<1>9. Settled(q)'
  BY <1>1, <1>5, BodyAssumption
  DEF Shaped, Typed, BodyOf, Tallied, Staged, Settled, BeginUnknown
<1> QED BY <1>2, <1>3, <1>4, <1>5, <1>6, <1>7, <1>8, <1>9, BodyLocal DEF BodyOf

\* newBodyReplay has found room for the whole body.
LEMMA BeginLoadKeeps ==
  ASSUME BodyInv, NEW q \in Bodies, BeginLoad(q)
  PROVE  BodyInv'
<1>1. Shaped /\ Typed(q) /\ BodyOf(q) /\ used \in Nat
  BY BodyInvParts DEF BodyParts
<1>2. BudgetExact' /\ used' \in Nat
  BY BudgetSame DEF BeginLoad, Load
<1>3. Shaped' /\ \A r \in Bodies \ {q} : Untold(r)
  BY <1>1 DEF Shaped, Untold, BeginLoad, Load
<1>4. Typed(q)'
  BY <1>1, BodyAssumption DEF Shaped, Typed, BodyOf, Tallied, BeginLoad, Load
<1>5. Tallied(q)'
  BY <1>1, BodyAssumption DEF Shaped, Typed, BodyOf, Tallied, Staged, BeginLoad, Load
<1>6. Staged(q)'
  BY <1>1, BodyAssumption
  DEF Shaped, Typed, BodyOf, Tallied, Staged, Reserving, BeginLoad, Load
<1>7. Reserving(q)'
  BY <1>1, BodyAssumption DEF Shaped, Typed, BodyOf, Staged, Reserving, BeginLoad, Load
<1>8. Backed(q)'
  BY <1>1, <1>5, BodyAssumption
  DEF Shaped, Typed, BodyOf, Tallied, Staged, Backed, Kept, Smaller, BeginLoad, Load
<1>9. Settled(q)'
  BY <1>1, <1>5, BodyAssumption
  DEF Shaped, Typed, BodyOf, Tallied, Staged, Settled, BeginLoad, Load
<1> QED BY <1>2, <1>3, <1>4, <1>5, <1>6, <1>7, <1>8, <1>9, BodyLocal DEF BodyOf

\* newBodyReplay reserves the whole body before anything is read.
LEMMA BeginSwapKeeps ==
  ASSUME BodyInv, NEW q \in Bodies, BeginSwap(q)
  PROVE  BodyInv'
<1>1. Shaped /\ Typed(q) /\ BodyOf(q) /\ used \in Nat
  BY BodyInvParts DEF BodyParts
<1>2. BudgetExact' /\ used' \in Nat
  <2>1. size[q] \in Int /\ reserved[q] + size[q] \in Nat /\ loaded[q] + size[q] <= Budget
    BY <1>1 DEF Typed, BodyOf, Staged, Reserving, BeginSwap, Swap
  <2> QED BY <2>1, BudgetSwap DEF BeginSwap
<1>3. Shaped' /\ \A r \in Bodies \ {q} : Untold(r)
  BY <1>1 DEF Shaped, Untold, BeginSwap, Swap
<1>4. Typed(q)'
  BY <1>1, BodyAssumption DEF Shaped, Typed, BodyOf, Tallied, BeginSwap, Swap
<1>5. Tallied(q)'
  BY <1>1, BodyAssumption DEF Shaped, Typed, BodyOf, Tallied, Staged, BeginSwap, Swap
<1>6. Staged(q)'
  BY <1>1, BodyAssumption
  DEF Shaped, Typed, BodyOf, Tallied, Staged, Reserving, BeginSwap, Swap
<1>7. Reserving(q)'
  BY <1>1, BodyAssumption DEF Shaped, Typed, BodyOf, Staged, Reserving, BeginSwap, Swap
<1>8. Backed(q)'
  BY <1>1, <1>5, BodyAssumption
  DEF Shaped, Typed, BodyOf, Tallied, Staged, Backed, Kept, Smaller, BeginSwap, Swap
<1>9. Settled(q)'
  BY <1>1, <1>5, BodyAssumption
  DEF Shaped, Typed, BodyOf, Tallied, Staged, Settled, BeginSwap, Swap
<1> QED BY <1>2, <1>3, <1>4, <1>5, <1>6, <1>7, <1>8, <1>9, BodyLocal DEF BodyOf

\* A request refused for want of budget leaves its body untouched.
LEMMA BeginRefusedKeeps ==
  ASSUME BodyInv, NEW q \in Bodies, BeginRefused(q)
  PROVE  BodyInv'
<1>1. Shaped /\ Typed(q) /\ BodyOf(q) /\ used \in Nat
  BY BodyInvParts DEF BodyParts
<1>2. BudgetExact' /\ used' \in Nat
  BY BudgetSame DEF BeginRefused, Exhausted
<1>3. Shaped' /\ \A r \in Bodies \ {q} : Untold(r)
  BY <1>1 DEF Shaped, Untold, BeginRefused, Exhausted
<1>4. Typed(q)'
  BY <1>1, BodyAssumption DEF Shaped, Typed, BodyOf, Tallied, BeginRefused, Exhausted
<1>5. Tallied(q)'
  BY <1>1, BodyAssumption
  DEF Shaped, Typed, BodyOf, Tallied, Staged, BeginRefused, Exhausted
<1>6. Staged(q)'
  BY <1>1, BodyAssumption
  DEF Shaped, Typed, BodyOf, Tallied, Staged, Reserving, BeginRefused, Exhausted
<1>7. Reserving(q)'
  BY <1>1, BodyAssumption
  DEF Shaped, Typed, BodyOf, Staged, Reserving, BeginRefused, Exhausted
<1>8. Backed(q)'
  BY <1>1, <1>5, BodyAssumption
  DEF Shaped, Typed, BodyOf, Tallied, Staged, Backed, Kept, Smaller, BeginRefused,
      Exhausted
<1>9. Settled(q)'
  BY <1>1, <1>5, BodyAssumption
  DEF Shaped, Typed, BodyOf, Tallied, Staged, Settled, BeginRefused, Exhausted
<1> QED BY <1>2, <1>3, <1>4, <1>5, <1>6, <1>7, <1>8, <1>9, BodyLocal DEF BodyOf

\* A failed CompareAndSwap changes nothing but what is loaded.
LEMMA ReloadKeeps ==
  ASSUME BodyInv, NEW q \in Bodies, Reload(q)
  PROVE  BodyInv'
<1>1. Shaped /\ Typed(q) /\ BodyOf(q) /\ used \in Nat
  BY BodyInvParts DEF BodyParts
<1>2. BudgetExact' /\ used' \in Nat
  BY BudgetSame DEF Reload
<1>3. Shaped' /\ \A r \in Bodies \ {q} : Untold(r)
  BY <1>1 DEF Shaped, Untold, Reload
<1>4. Typed(q)'
  BY <1>1, BodyAssumption DEF Shaped, Typed, BodyOf, Tallied, Reload
<1>5. Tallied(q)'
  BY <1>1, BodyAssumption DEF Shaped, Typed, BodyOf, Tallied, Staged, Reload
<1>6. Staged(q)'
  BY <1>1, BodyAssumption DEF Shaped, Typed, BodyOf, Tallied, Staged, Reserving, Reload
<1>7. Reserving(q)'
  BY <1>1, BodyAssumption DEF Shaped, Typed, BodyOf, Staged, Reserving, Reload
<1>8. Backed(q)'
  BY <1>1, <1>5, BodyAssumption
  DEF Shaped, Typed, BodyOf, Tallied, Staged, Backed, Kept, Smaller, Reload
<1>9. Settled(q)'
  BY <1>1, <1>5, BodyAssumption
  DEF Shaped, Typed, BodyOf, Tallied, Staged, Settled, Reload
<1> QED BY <1>2, <1>3, <1>4, <1>5, <1>6, <1>7, <1>8, <1>9, BodyLocal DEF BodyOf

\* The client's body delivers no more than it has, and its end only at its end.
LEMMA FetchKeeps ==
  ASSUME BodyInv, NEW q \in Bodies, Fetch(q)
  PROVE  BodyInv'
<1>1. Shaped /\ Typed(q) /\ BodyOf(q) /\ used \in Nat
  BY BodyInvParts DEF BodyParts
<1>2. BudgetExact' /\ used' \in Nat
  BY BudgetSame DEF Fetch
<1>3. Shaped' /\ \A r \in Bodies \ {q} : Untold(r)
  BY <1>1 DEF Shaped, Untold, Fetch
<1>4. Typed(q)'
  BY <1>1, BodyAssumption DEF Shaped, Typed, BodyOf, Tallied, Fetch
<1>5. Tallied(q)'
  BY <1>1, BodyAssumption DEF Shaped, Typed, BodyOf, Tallied, Staged, Fetch
<1>6. Staged(q)'
  BY <1>1, BodyAssumption DEF Shaped, Typed, BodyOf, Tallied, Staged, Reserving, Fetch
<1>7. Reserving(q)'
  BY <1>1, BodyAssumption DEF Shaped, Typed, BodyOf, Staged, Reserving, Fetch
<1>8. Backed(q)'
  BY <1>1, <1>5, BodyAssumption
  DEF Shaped, Typed, BodyOf, Tallied, Staged, Backed, Kept, Smaller, Fetch
<1>9. Settled(q)'
  BY <1>1, <1>5, BodyAssumption
  DEF Shaped, Typed, BodyOf, Tallied, Staged, Settled, Fetch
<1> QED BY <1>2, <1>3, <1>4, <1>5, <1>6, <1>7, <1>8, <1>9, BodyLocal DEF BodyOf

\* A transport that stops reading leaves the capture as it is.
LEMMA StopKeeps ==
  ASSUME BodyInv, NEW q \in Bodies, Stop(q)
  PROVE  BodyInv'
<1>1. Shaped /\ Typed(q) /\ BodyOf(q) /\ used \in Nat
  BY BodyInvParts DEF BodyParts
<1>2. BudgetExact' /\ used' \in Nat
  BY BudgetSame DEF Stop
<1>3. Shaped' /\ \A r \in Bodies \ {q} : Untold(r)
  BY <1>1 DEF Shaped, Untold, Stop
<1>4. Typed(q)'
  BY <1>1, BodyAssumption DEF Shaped, Typed, BodyOf, Tallied, Stop
<1>5. Tallied(q)'
  BY <1>1, BodyAssumption DEF Shaped, Typed, BodyOf, Tallied, Staged, Stop
<1>6. Staged(q)'
  BY <1>1, BodyAssumption DEF Shaped, Typed, BodyOf, Tallied, Staged, Reserving, Stop
<1>7. Reserving(q)'
  BY <1>1, BodyAssumption DEF Shaped, Typed, BodyOf, Staged, Reserving, Stop
<1>8. Backed(q)'
  BY <1>1, <1>5, BodyAssumption
  DEF Shaped, Typed, BodyOf, Tallied, Staged, Backed, Kept, Smaller, Stop
<1>9. Settled(q)'
  BY <1>1, <1>5, BodyAssumption
  DEF Shaped, Typed, BodyOf, Tallied, Staged, Settled, Stop
<1> QED BY <1>2, <1>3, <1>4, <1>5, <1>6, <1>7, <1>8, <1>9, BodyLocal DEF BodyOf

\* A Read that records nothing counts what was read: the capture was given up
\* or sealed, or there is nothing new.
LEMMA RecordNothingKeeps ==
  ASSUME BodyInv, NEW q \in Bodies, RecordNothing(q)
  PROVE  BodyInv'
<1>1. Shaped /\ Typed(q) /\ BodyOf(q) /\ used \in Nat
  BY BodyInvParts DEF BodyParts
<1>2. BudgetExact' /\ used' \in Nat
  BY BudgetSame DEF RecordNothing, EndRead
<1>3. Shaped' /\ \A r \in Bodies \ {q} : Untold(r)
  BY <1>1 DEF Shaped, Untold, RecordNothing, EndRead
<1>4. Typed(q)'
  BY <1>1, BodyAssumption DEF Shaped, Typed, BodyOf, Tallied, RecordNothing, EndRead
<1>5. Tallied(q)'
  BY <1>1, BodyAssumption
  DEF Shaped, Typed, BodyOf, Tallied, Staged, RecordNothing, EndRead
<1>6. Staged(q)'
  BY <1>1, BodyAssumption
  DEF Shaped, Typed, BodyOf, Tallied, Staged, Reserving, RecordNothing, EndRead
<1>7. Reserving(q)'
  BY <1>1, BodyAssumption
  DEF Shaped, Typed, BodyOf, Staged, Reserving, RecordNothing, EndRead
<1>8. Backed(q)'
  BY <1>1, <1>5, BodyAssumption
  DEF Shaped, Typed, BodyOf, Tallied, Staged, Backed, Kept, Smaller, RecordNothing,
      EndRead
<1>9. Settled(q)'
  BY <1>1, <1>5, BodyAssumption
  DEF Shaped, Typed, BodyOf, Tallied, Staged, Settled, RecordNothing, EndRead
<1> QED BY <1>2, <1>3, <1>4, <1>5, <1>6, <1>7, <1>8, <1>9, BodyLocal DEF BodyOf

\* A capture that gets too long is discarded, with its reservation.
LEMMA RecordTooMuchKeeps ==
  ASSUME BodyInv, NEW q \in Bodies, RecordTooMuch(q)
  PROVE  BodyInv'
<1>1. Shaped /\ Typed(q) /\ BodyOf(q) /\ used \in Nat
  BY BodyInvParts DEF BodyParts
<1>2. BudgetExact' /\ used' \in Nat
  BY BudgetRelease DEF RecordTooMuch, Discard
<1>3. Shaped' /\ \A r \in Bodies \ {q} : Untold(r)
  BY <1>1
  DEF Shaped, Untold, RecordTooMuch, EndRead, Discard, Drop, ReleaseReservation,
      Exhausted
<1>4. Typed(q)'
  BY <1>1, BodyAssumption
  DEF Shaped, Typed, BodyOf, Tallied, RecordTooMuch, EndRead, Discard, Drop,
      ReleaseReservation, Exhausted
<1>5. Tallied(q)'
  BY <1>1, BodyAssumption
  DEF Shaped, Typed, BodyOf, Tallied, Staged, RecordTooMuch, EndRead, Discard, Drop,
      ReleaseReservation, Exhausted
<1>6. Staged(q)'
  BY <1>1, BodyAssumption
  DEF Shaped, Typed, BodyOf, Tallied, Staged, Reserving, RecordTooMuch, EndRead,
      Discard, Drop, ReleaseReservation, Exhausted
<1>7. Reserving(q)'
  BY <1>1, BodyAssumption
  DEF Shaped, Typed, BodyOf, Staged, Reserving, RecordTooMuch, EndRead, Discard, Drop,
      ReleaseReservation, Exhausted
<1>8. Backed(q)'
  BY <1>1, <1>5, BodyAssumption
  DEF Shaped, Typed, BodyOf, Tallied, Staged, Backed, Kept, Smaller, RecordTooMuch,
      EndRead, Discard, Drop, ReleaseReservation, Exhausted
<1>9. Settled(q)'
  BY <1>1, <1>5, BodyAssumption
  DEF Shaped, Typed, BodyOf, Tallied, Staged, Settled, RecordTooMuch, EndRead, Discard,
      Drop, ReleaseReservation, Exhausted
<1> QED BY <1>2, <1>3, <1>4, <1>5, <1>6, <1>7, <1>8, <1>9, BodyLocal DEF BodyOf

\* captureLocked has found room for the bytes not reserved yet.
LEMMA RecordLoadKeeps ==
  ASSUME BodyInv, NEW q \in Bodies, RecordLoad(q)
  PROVE  BodyInv'
<1>1. Shaped /\ Typed(q) /\ BodyOf(q) /\ used \in Nat
  BY BodyInvParts DEF BodyParts
<1>2. BudgetExact' /\ used' \in Nat
  BY BudgetSame DEF RecordLoad, Load
<1>3. Shaped' /\ \A r \in Bodies \ {q} : Untold(r)
  BY <1>1 DEF Shaped, Untold, RecordLoad, Load
<1>4. Typed(q)'
  BY <1>1, BodyAssumption DEF Shaped, Typed, BodyOf, Tallied, RecordLoad, Load
<1>5. Tallied(q)'
  BY <1>1, BodyAssumption DEF Shaped, Typed, BodyOf, Tallied, Staged, RecordLoad, Load
<1>6. Staged(q)'
  BY <1>1, BodyAssumption
  DEF Shaped, Typed, BodyOf, Tallied, Staged, Reserving, RecordLoad, Load
<1>7. Reserving(q)'
  BY <1>1, BodyAssumption DEF Shaped, Typed, BodyOf, Staged, Reserving, RecordLoad, Load
<1>8. Backed(q)'
  BY <1>1, <1>5, BodyAssumption
  DEF Shaped, Typed, BodyOf, Tallied, Staged, Backed, Kept, Smaller, RecordLoad, Load
<1>9. Settled(q)'
  BY <1>1, <1>5, BodyAssumption
  DEF Shaped, Typed, BodyOf, Tallied, Staged, Settled, RecordLoad, Load
<1> QED BY <1>2, <1>3, <1>4, <1>5, <1>6, <1>7, <1>8, <1>9, BodyLocal DEF BodyOf

\* captureLocked reserves the bytes before it stores them.
LEMMA RecordSwapKeeps ==
  ASSUME BodyInv, NEW q \in Bodies, RecordSwap(q)
  PROVE  BodyInv'
<1>1. Shaped /\ Typed(q) /\ BodyOf(q) /\ used \in Nat
  BY BodyInvParts DEF BodyParts
<1>2. BudgetExact' /\ used' \in Nat
  <2>0. read[q] \in Nat /\ fetched[q].bytes \in Nat /\ reserved[q] \in Nat
    BY <1>1, BodyAssumption DEF Typed
  <2>1. Additional(q) \in Int /\ reserved[q] + Additional(q) \in Nat
    BY <2>0
  <2>2. reader[q] = "reserving" /\ loaded[q] # -1 /\ stage[q] # "new"
    BY <1>1 DEF BodyOf, Staged, RecordSwap, Swap
  <2>3. loaded[q] + Additional(q) <= Budget
    BY <1>1, <2>2 DEF BodyOf, Reserving
  <2> QED BY <2>1, <2>3, BudgetSwap DEF RecordSwap
<1>3. Shaped' /\ \A r \in Bodies \ {q} : Untold(r)
  BY <1>1 DEF Shaped, Untold, RecordSwap, Swap
<1>4. Typed(q)'
  BY <1>1, BodyAssumption DEF Shaped, Typed, BodyOf, Tallied, RecordSwap, Swap
<1>5. Tallied(q)'
  BY <1>1, BodyAssumption DEF Shaped, Typed, BodyOf, Tallied, Staged, RecordSwap, Swap
<1>6. Staged(q)'
  BY <1>1, BodyAssumption
  DEF Shaped, Typed, BodyOf, Tallied, Staged, Reserving, RecordSwap, Swap
<1>7. Reserving(q)'
  BY <1>1, BodyAssumption DEF Shaped, Typed, BodyOf, Staged, Reserving, RecordSwap, Swap
<1>8. Backed(q)'
  BY <1>1, <1>5, BodyAssumption
  DEF Shaped, Typed, BodyOf, Tallied, Staged, Backed, Kept, Smaller, RecordSwap, Swap
<1>9. Settled(q)'
  BY <1>1, <1>5, BodyAssumption
  DEF Shaped, Typed, BodyOf, Tallied, Staged, Settled, RecordSwap, Swap
<1> QED BY <1>2, <1>3, <1>4, <1>5, <1>6, <1>7, <1>8, <1>9, BodyLocal DEF BodyOf

\* What is stored in memory fits there and is reserved.
LEMMA StoreMemoryKeeps ==
  ASSUME BodyInv, NEW q \in Bodies, StoreMemory(q)
  PROVE  BodyInv'
<1>1. Shaped /\ Typed(q) /\ BodyOf(q) /\ used \in Nat
  BY BodyInvParts DEF BodyParts
<1>2. BudgetExact' /\ used' \in Nat
  BY BudgetSame DEF StoreMemory, EndRead, MayStore, FitsMemory
<1>3. Shaped' /\ \A r \in Bodies \ {q} : Untold(r)
  BY <1>1 DEF Shaped, Untold, StoreMemory, EndRead, MayStore, FitsMemory
<1>4. Typed(q)'
  BY <1>1, BodyAssumption
  DEF Shaped, Typed, BodyOf, Tallied, StoreMemory, EndRead, MayStore, FitsMemory
<1>5. Tallied(q)'
  BY <1>1, BodyAssumption
  DEF Shaped, Typed, BodyOf, Tallied, Staged, StoreMemory, EndRead, MayStore, FitsMemory
<1>6. Staged(q)'
  BY <1>1, BodyAssumption
  DEF Shaped, Typed, BodyOf, Tallied, Staged, Reserving, StoreMemory, EndRead, MayStore,
      FitsMemory
<1>7. Reserving(q)'
  BY <1>1, BodyAssumption
  DEF Shaped, Typed, BodyOf, Staged, Reserving, StoreMemory, EndRead, MayStore,
      FitsMemory
<1>8. Backed(q)'
  BY <1>1, <1>5, BodyAssumption
  DEF Shaped, Typed, BodyOf, Tallied, Staged, Backed, Kept, Smaller, StoreMemory,
      EndRead, MayStore, FitsMemory
<1>9. Settled(q)'
  BY <1>1, <1>5, BodyAssumption
  DEF Shaped, Typed, BodyOf, Tallied, Staged, Settled, StoreMemory, EndRead, MayStore,
      FitsMemory
<1> QED BY <1>2, <1>3, <1>4, <1>5, <1>6, <1>7, <1>8, <1>9, BodyLocal DEF BodyOf

\* What memory held moves to the file with the new bytes, all of it reserved.
LEMMA StoreFileKeeps ==
  ASSUME BodyInv, NEW q \in Bodies, StoreFile(q)
  PROVE  BodyInv'
<1>1. Shaped /\ Typed(q) /\ BodyOf(q) /\ used \in Nat
  BY BodyInvParts DEF BodyParts
<1>2. BudgetExact' /\ used' \in Nat
  BY BudgetSame DEF StoreFile, EndRead, MayStore, FitsMemory
<1>3. Shaped' /\ \A r \in Bodies \ {q} : Untold(r)
  BY <1>1 DEF Shaped, Untold, StoreFile, EndRead, MayStore, FitsMemory
<1>4. Typed(q)'
  BY <1>1, BodyAssumption
  DEF Shaped, Typed, BodyOf, Tallied, StoreFile, EndRead, MayStore, FitsMemory
<1>5. Tallied(q)'
  BY <1>1, BodyAssumption
  DEF Shaped, Typed, BodyOf, Tallied, Staged, StoreFile, EndRead, MayStore, FitsMemory
<1>6. Staged(q)'
  BY <1>1, BodyAssumption
  DEF Shaped, Typed, BodyOf, Tallied, Staged, Reserving, StoreFile, EndRead, MayStore,
      FitsMemory
<1>7. Reserving(q)'
  BY <1>1, BodyAssumption
  DEF Shaped, Typed, BodyOf, Staged, Reserving, StoreFile, EndRead, MayStore, FitsMemory
<1>8. Backed(q)'
  BY <1>1, <1>5, BodyAssumption
  DEF Shaped, Typed, BodyOf, Tallied, Staged, Backed, Kept, Smaller, StoreFile, EndRead,
      MayStore, FitsMemory
<1>9. Settled(q)'
  BY <1>1, <1>5, BodyAssumption
  DEF Shaped, Typed, BodyOf, Tallied, Staged, Settled, StoreFile, EndRead, MayStore,
      FitsMemory
<1> QED BY <1>2, <1>3, <1>4, <1>5, <1>6, <1>7, <1>8, <1>9, BodyLocal DEF BodyOf

\* A capture whose file fails is discarded, with its reservation.
LEMMA StoreFailedKeeps ==
  ASSUME BodyInv, NEW q \in Bodies, StoreFailed(q)
  PROVE  BodyInv'
<1>1. Shaped /\ Typed(q) /\ BodyOf(q) /\ used \in Nat
  BY BodyInvParts DEF BodyParts
<1>2. BudgetExact' /\ used' \in Nat
  BY BudgetRelease DEF StoreFailed, Discard
<1>3. Shaped' /\ \A r \in Bodies \ {q} : Untold(r)
  BY <1>1
  DEF Shaped, Untold, StoreFailed, EndRead, MayStore, FitsMemory, Discard, Drop,
      ReleaseReservation
<1>4. Typed(q)'
  BY <1>1, BodyAssumption
  DEF Shaped, Typed, BodyOf, Tallied, StoreFailed, EndRead, MayStore, FitsMemory,
      Discard, Drop, ReleaseReservation
<1>5. Tallied(q)'
  BY <1>1, BodyAssumption
  DEF Shaped, Typed, BodyOf, Tallied, Staged, StoreFailed, EndRead, MayStore,
      FitsMemory, Discard, Drop, ReleaseReservation
<1>6. Staged(q)'
  BY <1>1, BodyAssumption
  DEF Shaped, Typed, BodyOf, Tallied, Staged, Reserving, StoreFailed, EndRead, MayStore,
      FitsMemory, Discard, Drop, ReleaseReservation
<1>7. Reserving(q)'
  BY <1>1, BodyAssumption
  DEF Shaped, Typed, BodyOf, Staged, Reserving, StoreFailed, EndRead, MayStore,
      FitsMemory, Discard, Drop, ReleaseReservation
<1>8. Backed(q)'
  BY <1>1, <1>5, BodyAssumption
  DEF Shaped, Typed, BodyOf, Tallied, Staged, Backed, Kept, Smaller, StoreFailed,
      EndRead, MayStore, FitsMemory, Discard, Drop, ReleaseReservation
<1>9. Settled(q)'
  BY <1>1, <1>5, BodyAssumption
  DEF Shaped, Typed, BodyOf, Tallied, Staged, Settled, StoreFailed, EndRead, MayStore,
      FitsMemory, Discard, Drop, ReleaseReservation
<1> QED BY <1>2, <1>3, <1>4, <1>5, <1>6, <1>7, <1>8, <1>9, BodyLocal DEF BodyOf

\* replay seals a complete capture, so that what is sent again is the whole
\* body.
LEMMA PrepareKeeps ==
  ASSUME BodyInv, NEW q \in Bodies, Prepare(q)
  PROVE  BodyInv'
<1>1. Shaped /\ Typed(q) /\ BodyOf(q) /\ used \in Nat
  BY BodyInvParts DEF BodyParts
<1>2. BudgetExact' /\ used' \in Nat
  BY BudgetSame DEF Prepare, Replayable
<1>3. Shaped' /\ \A r \in Bodies \ {q} : Untold(r)
  BY <1>1 DEF Shaped, Untold, Prepare, Replayable
<1>4. Typed(q)'
  BY <1>1, BodyAssumption DEF Shaped, Typed, BodyOf, Tallied, Prepare, Replayable
<1>5. Tallied(q)'
  BY <1>1, BodyAssumption
  DEF Shaped, Typed, BodyOf, Tallied, Staged, Prepare, Replayable
<1>6. Staged(q)'
  BY <1>1, BodyAssumption
  DEF Shaped, Typed, BodyOf, Tallied, Staged, Reserving, Prepare, Replayable
<1>7. Reserving(q)'
  BY <1>1, BodyAssumption
  DEF Shaped, Typed, BodyOf, Staged, Reserving, Prepare, Replayable
<1>8. Backed(q)'
  BY <1>1, <1>5, BodyAssumption
  DEF Shaped, Typed, BodyOf, Tallied, Staged, Backed, Kept, Smaller, Prepare, Replayable
<1>9. Settled(q)'
  BY <1>1, <1>5, BodyAssumption
  DEF Shaped, Typed, BodyOf, Tallied, Staged, Settled, Prepare, Replayable
<1> QED BY <1>2, <1>3, <1>4, <1>5, <1>6, <1>7, <1>8, <1>9, BodyLocal DEF BodyOf

\* A file that cannot be closed ends the request, and the capture stays
\* reserved until it is closed.
LEMMA PrepareFailedKeeps ==
  ASSUME BodyInv, NEW q \in Bodies, PrepareFailed(q)
  PROVE  BodyInv'
<1>1. Shaped /\ Typed(q) /\ BodyOf(q) /\ used \in Nat
  BY BodyInvParts DEF BodyParts
<1>2. BudgetExact' /\ used' \in Nat
  BY BudgetSame DEF PrepareFailed, Replayable
<1>3. Shaped' /\ \A r \in Bodies \ {q} : Untold(r)
  BY <1>1 DEF Shaped, Untold, PrepareFailed, Replayable
<1>4. Typed(q)'
  BY <1>1, BodyAssumption DEF Shaped, Typed, BodyOf, Tallied, PrepareFailed, Replayable
<1>5. Tallied(q)'
  BY <1>1, BodyAssumption
  DEF Shaped, Typed, BodyOf, Tallied, Staged, PrepareFailed, Replayable
<1>6. Staged(q)'
  BY <1>1, BodyAssumption
  DEF Shaped, Typed, BodyOf, Tallied, Staged, Reserving, PrepareFailed, Replayable
<1>7. Reserving(q)'
  BY <1>1, BodyAssumption
  DEF Shaped, Typed, BodyOf, Staged, Reserving, PrepareFailed, Replayable
<1>8. Backed(q)'
  BY <1>1, <1>5, BodyAssumption
  DEF Shaped, Typed, BodyOf, Tallied, Staged, Backed, Kept, Smaller, PrepareFailed,
      Replayable
<1>9. Settled(q)'
  BY <1>1, <1>5, BodyAssumption
  DEF Shaped, Typed, BodyOf, Tallied, Staged, Settled, PrepareFailed, Replayable
<1> QED BY <1>2, <1>3, <1>4, <1>5, <1>6, <1>7, <1>8, <1>9, BodyLocal DEF BodyOf

\* RoundTrip returns while the transport may still read.
LEMMA RoundTripReturnsKeeps ==
  ASSUME BodyInv, NEW q \in Bodies, RoundTripReturns(q)
  PROVE  BodyInv'
<1>1. Shaped /\ Typed(q) /\ BodyOf(q) /\ used \in Nat
  BY BodyInvParts DEF BodyParts
<1>2. BudgetExact' /\ used' \in Nat
  BY BudgetSame DEF RoundTripReturns
<1>3. Shaped' /\ \A r \in Bodies \ {q} : Untold(r)
  BY <1>1 DEF Shaped, Untold, RoundTripReturns
<1>4. Typed(q)'
  BY <1>1, BodyAssumption DEF Shaped, Typed, BodyOf, Tallied, RoundTripReturns
<1>5. Tallied(q)'
  BY <1>1, BodyAssumption DEF Shaped, Typed, BodyOf, Tallied, Staged, RoundTripReturns
<1>6. Staged(q)'
  BY <1>1, BodyAssumption
  DEF Shaped, Typed, BodyOf, Tallied, Staged, Reserving, RoundTripReturns
<1>7. Reserving(q)'
  BY <1>1, BodyAssumption DEF Shaped, Typed, BodyOf, Staged, Reserving, RoundTripReturns
<1>8. Backed(q)'
  BY <1>1, <1>5, BodyAssumption
  DEF Shaped, Typed, BodyOf, Tallied, Staged, Backed, Kept, Smaller, RoundTripReturns
<1>9. Settled(q)'
  BY <1>1, <1>5, BodyAssumption
  DEF Shaped, Typed, BodyOf, Tallied, Staged, Settled, RoundTripReturns
<1> QED BY <1>2, <1>3, <1>4, <1>5, <1>6, <1>7, <1>8, <1>9, BodyLocal DEF BodyOf

\* close discards what was recorded and returns the reservation, once, even
\* under a reader.
LEMMA CloseBodyKeeps ==
  ASSUME BodyInv, NEW q \in Bodies, CloseBody(q)
  PROVE  BodyInv'
<1>1. Shaped /\ Typed(q) /\ BodyOf(q) /\ used \in Nat
  BY BodyInvParts DEF BodyParts
<1>2. BudgetExact' /\ used' \in Nat
  BY BudgetRelease DEF CloseBody, Discard
<1>3. Shaped' /\ \A r \in Bodies \ {q} : Untold(r)
  BY <1>1 DEF Shaped, Untold, CloseBody, Discard, Drop, ReleaseReservation
<1>4. Typed(q)'
  BY <1>1, BodyAssumption
  DEF Shaped, Typed, BodyOf, Tallied, CloseBody, Discard, Drop, ReleaseReservation
<1>5. Tallied(q)'
  BY <1>1, BodyAssumption
  DEF Shaped, Typed, BodyOf, Tallied, Staged, CloseBody, Discard, Drop,
      ReleaseReservation
<1>6. Staged(q)'
  BY <1>1, BodyAssumption
  DEF Shaped, Typed, BodyOf, Tallied, Staged, Reserving, CloseBody, Discard, Drop,
      ReleaseReservation
<1>7. Reserving(q)'
  BY <1>1, BodyAssumption
  DEF Shaped, Typed, BodyOf, Staged, Reserving, CloseBody, Discard, Drop,
      ReleaseReservation
<1>8. Backed(q)'
  BY <1>1, <1>5, BodyAssumption
  DEF Shaped, Typed, BodyOf, Tallied, Staged, Backed, Kept, Smaller, CloseBody, Discard,
      Drop, ReleaseReservation
<1>9. Settled(q)'
  BY <1>1, <1>5, BodyAssumption
  DEF Shaped, Typed, BodyOf, Tallied, Staged, Settled, CloseBody, Discard, Drop,
      ReleaseReservation
<1> QED BY <1>2, <1>3, <1>4, <1>5, <1>6, <1>7, <1>8, <1>9, BodyLocal DEF BodyOf

\* Every step of a body keeps the invariant.
LEMMA BodyNextKeeps ==
  ASSUME BodyInv, [BodyNext]_bodyVars
  PROVE  BodyInv'
<1>1. CASE UNCHANGED bodyVars
  <2>1. BudgetExact' /\ used' \in Nat
    BY <1>1, BudgetSame DEF bodyVars
  <2>2. Shaped' /\ \A r \in Bodies : Typed(r)' /\ BodyOf(r)'
    <3>1. Shaped /\ \A r \in Bodies : Typed(r) /\ BodyOf(r)
      BY BodyInvParts DEF BodyParts
    <3>2. Shaped' /\ \A r \in Bodies : Untold(r)
      BY <1>1, <3>1 DEF bodyVars, Shaped, Untold
    <3>3. \A r \in Bodies : Typed(r)' /\ BodyOf(r)'
      BY <3>1, <3>2, UntoldSame
    <3> QED BY <3>2, <3>3
  <2>3. BodyParts'
    BY <2>1, <2>2 DEF BodyParts
  <2> QED BY <2>3, BodyInvParts, PTL
<1>2. ASSUME NEW q \in Bodies, BeginBody(q) \/ Reload(q)
      PROVE  BodyInv'
  BY <1>2, BeginUncapturedKeeps, BeginUnknownKeeps, BeginLoadKeeps, BeginSwapKeeps,
     BeginRefusedKeeps, ReloadKeeps DEF BeginBody
<1>3. ASSUME NEW q \in Bodies, Fetch(q) \/ Stop(q) \/ Record(q)
      PROVE  BodyInv'
  BY <1>3, FetchKeeps, StopKeeps, RecordNothingKeeps, RecordTooMuchKeeps, RecordLoadKeeps,
     RecordSwapKeeps, StoreMemoryKeeps, StoreFileKeeps, StoreFailedKeeps DEF Record
<1>4. ASSUME NEW q \in Bodies,
             Prepare(q) \/ PrepareFailed(q) \/ RoundTripReturns(q) \/ CloseBody(q)
      PROVE  BodyInv'
  BY <1>4, PrepareKeeps, PrepareFailedKeeps, RoundTripReturnsKeeps, CloseBodyKeeps
<1> QED BY <1>1, <1>2, <1>3, <1>4 DEF BodyNext

\* At the start no body has been read.
LEMMA BodyStarts ==
  ASSUME BodyInit
  PROVE  BodyInv
<1>1. Shaped /\ used \in Nat /\ \A q \in Bodies : Typed(q)
  BY BodyAssumption DEF BodyInit, Shaped, Typed
<1>2. \A q \in Bodies : BodyOf(q)
  BY BodyAssumption
  DEF BodyInit, BodyOf, Tallied, Staged, Reserving, Backed, Settled, Kept, Smaller
<1>3. BudgetExact
  <2>1. IsFiniteSet(Bodies) /\ Budget \in Nat /\ \A q \in Bodies : reserved[q] = 0
    BY BodyAssumption DEF BodyInit
  <2>2. Total(reserved, Bodies) = 0
    BY <2>1, TotalZero
  <2>3. used = Total(reserved, Bodies) /\ used <= Budget
    BY <2>1, <2>2 DEF BodyInit
  <2> QED BY <2>3 DEF BudgetExact, Total, MapThenSumSet, MapThenFoldSet
<1> QED BY <1>1, <1>2, <1>3, BodyInvParts DEF BodyParts

\* The inductive invariant of the captures: what each keeps is what was read and is
\* reserved, and the budget counts the reservations (transport.go:330-533).
THEOREM BodyInvariance == BodySpec => []BodyInv
BY BodyStarts, BodyNextKeeps, PTL DEF BodySpec

\* However many bodies are recorded at once, and however their readers interleave,
\* the captures together keep no more than their budget (transport.go:360-417,
\* proxy.go:113-132).
THEOREM BodyCaptureBounded == BodySpec => []CaptureBounded
BY BodyInvariance, PTL DEF BodyInv

\* A request that has returned leaves nothing behind, for any reader that is late
\* (transport.go:397-443).
THEOREM BodyNothingLeft == BodySpec => []NothingLeft
BY BodyInvariance, PTL DEF BodyInv

\* A retry sends the whole body, wherever it was kept (transport.go:419-437).
THEOREM BodyReplayWhole == BodySpec => []ReplayWhole
BY BodyInvariance, PTL DEF BodyInv

HIDE DEF capture, Recording, ReadNow, Additional, Unlocked, Untouched

-----------------------------------------------------------------------------
(* The life of a process                                                   *)

\* The invariant holds when run starts.
LEMMA LifeStart == Init => LifeInv
<1> SUFFICES ASSUME Init PROVE LifeInv
  OBVIOUS
<1>1. LifeTypeOK
  BY DEF Init, LifeTypeOK
<1>2. OneJoin /\ ListsOwned
  BY DEF Init, OneJoin, ListsOwned, Joins
<1>3. WayOut /\ PeerFirst
  BY DEF Init, WayOut, PeerFirst, Joins, Callers
<1> QED BY <1>1, <1>2, <1>3 DEF LifeInv

\* A caller that moves leaves the others where they are.
LEMMA GotoOne ==
  ASSUME LifeTypeOK, NEW c \in Callers, NEW to, Goto(c, to)
  PROVE  pc'[c] = to /\ \A d \in Callers \ {c} : pc'[d] = pc[d]
BY DEF LifeTypeOK, Goto

\* What a step of run and of its servers is for the cluster, unless it is the
\* last: run moves outside JoinCluster and leaves the memberlists alone.
RunMoves ==
  /\ UNCHANGED nodeVars
  /\ \/ UNCHANGED pc
     \/ pc[Main] \notin Joins /\ \E to \in {"enter", "running", "close"} : Goto(Main, to)

\* Every such step is one: run neither joins by itself nor touches what the
\* proxy keeps of its cluster (main.go).
LEMMA RunSteps ==
  ASSUME (Run /\ ~Exit) \/ Signal \/ Expire \/ \E s \in Servers : ServeFails(s) \/ Accept(s) \/ Handled(s)
  PROVE  RunMoves
<1>1. CASE \E s \in Servers : Bind(s) \/ CloseListener(s) \/ Shutdown(s)
  BY <1>1 DEF Bind, CloseListener, Shutdown, RunMoves
<1>2. CASE BindFails \/ StartPeer \/ JoinFailed
  BY <1>2 DEF BindFails, StartPeer, JoinFailed, Bound, Return, RunMoves, Joins
<1>3. CASE StartRest \/ ServeErrors \/ RunReturns \/ Signal
  BY <1>3 DEF StartRest, ServeErrors, RunReturns, Signal, Bound, Return, AllStopped, Stopping, RunMoves, Joins
<1>4. CASE Expire \/ \E s \in Servers : ServeFails(s) \/ Accept(s) \/ Handled(s)
  BY <1>4 DEF Expire, ServeFails, Accept, Handled, RunMoves
<1> QED BY <1>1, <1>2, <1>3, <1>4 DEF Run

\* The types are kept by every step.
LEMMA LifeTypes ==
  ASSUME LifeTypeOK, Next
  PROVE  LifeTypeOK'
<1>1. Main \in Callers
  BY DEF Callers
<1>2. ASSUME NEW c \in Callers, Call(c) \/ InCall(c)
      PROVE  LifeTypeOK'
  <2>1. CASE Call(c) \/ CloseCall(c) \/ CloseReturn(c)
    <3>1. CASE Call(c)
      BY <1>2, <3>1 DEF Call, Goto, closeVars, processVars, LifeTypeOK
    <3>2. CASE CloseCall(c)
      BY <1>2, <3>2 DEF CloseCall, Goto, processVars, LifeTypeOK
    <3>3. CASE CloseReturn(c)
      BY <1>2, <3>3 DEF CloseReturn, Goto, closeVars, processVars, LifeTypeOK
    <3> QED BY <2>1, <3>1, <3>2, <3>3
  <2>2. CASE JoinEnter(c) \/ JoinInvalid(c) \/ JoinInstall(c)
    BY <1>2, <2>2 DEF JoinEnter, JoinInvalid, JoinInstall, Goto, closeVars, processVars, LifeTypeOK, Joins
  <2>3. CASE JoinCreate(c) \/ JoinChecks(c)
    BY <1>2, <2>3 DEF JoinCreate, JoinChecks, Goto, closeVars, processVars, LifeTypeOK, Joins
  <2>4. CASE JoinUndo(c) \/ JoinUndone(c)
    BY <1>2, <2>4 DEF JoinUndo, JoinUndone, Shut, Goto, closeVars, processVars, LifeTypeOK, Joins
  <2> QED BY <1>2, <2>1, <2>2, <2>3, <2>4 DEF InCall, Joining
<1>3. CASE Finish \/ SweepLoopEnds
  BY <1>3 DEF Finish, FinishTake, FinishLeave, FinishShut, FinishDone, SweepLoopEnds, Shut, processVars, LifeTypeOK
<1>4. CASE Signal \/ Expire \/ \E s \in Servers : ServeFails(s) \/ Accept(s) \/ Handled(s)
  <2>1. CASE Signal \/ Expire
    BY <1>1, <2>1 DEF Signal, Expire, Goto, nodeVars, closeVars, processVars, LifeTypeOK
  <2>2. CASE \E s \in Servers : ServeFails(s) \/ Accept(s) \/ Handled(s)
    BY <2>2 DEF ServeFails, Accept, Handled, nodeVars, closeVars, LifeTypeOK
  <2> QED BY <1>4, <2>1, <2>2
<1>5. CASE \E s \in Servers : Bind(s) \/ CloseListener(s) \/ Shutdown(s)
  BY <1>5 DEF Bind, CloseListener, Shutdown, nodeVars, closeVars, runVars, Servers, LifeTypeOK
<1>6. CASE BindFails \/ JoinFailed \/ ServeErrors \/ RunReturns
  <2>1. CASE BindFails \/ JoinFailed
    BY <1>1, <2>1 DEF BindFails, JoinFailed, Return, Goto, nodeVars, closeVars, LifeTypeOK
  <2>2. CASE ServeErrors \/ RunReturns
    BY <1>1, <2>2 DEF ServeErrors, RunReturns, Return, Goto, nodeVars, closeVars, LifeTypeOK
  <2> QED BY <1>6, <2>1, <2>2
<1>7. CASE StartPeer \/ StartRest
  BY <1>1, <1>7 DEF StartPeer, StartRest, Goto, nodeVars, closeVars, runVars, LifeTypeOK
<1>8. CASE Exit
  BY <1>8 DEF Exit, LifeTypeOK
<1> QED BY <1>2, <1>3, <1>4, <1>5, <1>6, <1>7, <1>8 DEF Next, Run

\* One join at a time, after every step.
LEMMA OneJoinNext ==
  ASSUME LifeInv, Next
  PROVE  OneJoin'
<1>1. LifeTypeOK /\ OneJoin /\ Main \in Callers /\ Nobody \notin Callers
  BY LifecycleAssumption DEF LifeInv, Callers
<1>2. ASSUME NEW c \in Callers, Call(c) \/ InCall(c)
      PROVE  OneJoin'
  <2>1. CASE Call(c) \/ CloseCall(c) \/ CloseReturn(c) \/ JoinInvalid(c)
    <3>1. /\ \E to \in {"enter", "close", "closing", "closed", "refused"} : Goto(c, to)
          /\ UNCHANGED <<joining, handle>> /\ finish' \in {finish, "closing"}
          /\ finish' # "none" => ctxDone \/ ctxDone'
          /\ ctxDone => ctxDone'
      BY <1>1, <2>1 DEF Call, CloseCall, CloseReturn, JoinInvalid, closeVars, OneJoin
    <3> QED BY <1>1, <3>1, GotoOne DEF OneJoin, Joins
  <2>2. CASE JoinEnter(c)
    <3>1. \A d \in Callers \ {c} : pc'[d] = pc[d]
      BY <1>1, <2>2, GotoOne DEF JoinEnter
    <3>2. UNCHANGED <<ctxDone, handle, finish>>
      BY <2>2 DEF JoinEnter, closeVars
    <3>3. CASE Goto(c, "refused") /\ UNCHANGED joining
      BY <1>1, <3>1, <3>2, <3>3, GotoOne DEF OneJoin, Joins
    <3>4. CASE Goto(c, "create") /\ joining' = c /\ ~(ctxDone \/ handle # Nobody \/ joining # Nobody)
      <4>1. \A d \in Callers : pc[d] \notin Joins
        BY <1>1, <3>4 DEF OneJoin
      <4> QED BY <1>1, <3>1, <3>2, <3>4, <4>1 DEF OneJoin
    <3> QED BY <2>2, <3>3, <3>4 DEF JoinEnter
  <2>3. CASE JoinCreate(c) \/ JoinChecks(c) \/ JoinUndo(c)
    <3>1. /\ pc[c] \in Joins /\ \E to \in Joins : Goto(c, to)
          /\ UNCHANGED <<joining, handle, finish, ctxDone>>
      BY <2>3 DEF JoinCreate, JoinChecks, JoinUndo, closeVars, Joins
    <3> QED BY <1>1, <3>1, GotoOne DEF OneJoin
  <2>4. CASE JoinInstall(c) \/ JoinUndone(c)
    <3>1. joining = c /\ \A d \in Callers \ {c} : pc[d] \notin Joins
      BY <1>1, <2>4 DEF JoinInstall, JoinUndone, Joins, OneJoin
    <3>2. /\ \A d \in Callers \ {c} : pc'[d] = pc[d]
          /\ UNCHANGED <<ctxDone, finish>>
          /\ \/ pc'[c] = "undo" /\ UNCHANGED <<handle, joining>>
             \/ pc'[c] = "joined" /\ handle' = c /\ joining' = Nobody /\ ~ctxDone
             \/ pc'[c] = "refused" /\ joining' = Nobody /\ UNCHANGED handle
      BY <1>1, <2>4, <3>1, GotoOne DEF JoinInstall, JoinUndone, closeVars
    <3> QED BY <1>1, <3>1, <3>2 DEF OneJoin, Joins
  <2> QED BY <1>2, <2>1, <2>2, <2>3, <2>4 DEF InCall, Joining
<1>3. CASE Finish \/ SweepLoopEnds
  BY <1>1, <1>3 DEF Finish, FinishTake, FinishLeave, FinishShut, FinishDone, SweepLoopEnds, OneJoin
<1>4. CASE RunMoves
  BY <1>1, <1>4, GotoOne DEF RunMoves, nodeVars, closeVars, OneJoin, Joins
<1>5. CASE Exit
  BY <1>1, <1>5 DEF Exit, AllStopped, Stopping, OneJoin, LifeInv, WayOut, Joins
<1> QED BY <1>2, <1>3, <1>4, <1>5, RunSteps DEF Next, Run

\* Whoever has to shut down a memberlist still has to, after every step.
LEMMA ListsOwnedNext ==
  ASSUME LifeInv, Next
  PROVE  ListsOwned'
<1>1. /\ LifeTypeOK /\ OneJoin /\ ListsOwned /\ Main \in Callers /\ Nobody \notin Callers
      /\ list \in [Callers -> {"none", "live", "left", "shut"}]
  BY LifecycleAssumption DEF LifeInv, Callers, LifeTypeOK
<1>2. ASSUME NEW c \in Callers, Call(c) \/ InCall(c)
      PROVE  ListsOwned'
  <2>1. CASE Call(c) \/ CloseCall(c) \/ CloseReturn(c) \/ JoinInvalid(c) \/ JoinEnter(c)
    <3>1. /\ pc[c] \notin Joins /\ \A d \in Callers \ {c} : pc'[d] = pc[d]
          /\ UNCHANGED <<handle, taken, list>>
          /\ finish' = finish \/ finish = "none"
      BY <1>1, <2>1, GotoOne DEF Call, CloseCall, CloseReturn, JoinInvalid, JoinEnter, closeVars, Joins
    <3> QED BY <1>1, <3>1 DEF ListsOwned, Joins
  <2>2. CASE JoinCreate(c) \/ JoinChecks(c)
    <3>1. /\ \A d \in Callers \ {c} : pc'[d] = pc[d] /\ list'[d] = list[d]
          /\ pc'[c] \in {"created", "install", "undo"}
          /\ UNCHANGED <<handle, taken, finish>>
      BY <1>1, <2>2, GotoOne DEF JoinCreate, JoinChecks, closeVars
    <3> QED BY <1>1, <3>1 DEF ListsOwned
  <2>3. CASE JoinInstall(c)
    <3>1. handle = Nobody
      BY <1>1, <2>3 DEF JoinInstall, OneJoin, Joins
    <3>2. /\ \A d \in Callers \ {c} : pc'[d] = pc[d]
          /\ UNCHANGED <<list, taken, finish>>
          /\ pc'[c] = "undo" \/ handle' = c
          /\ handle' \in {handle, c}
      BY <1>1, <2>3, GotoOne DEF JoinInstall, closeVars
    <3> QED BY <1>1, <3>1, <3>2 DEF ListsOwned
  <2>4. CASE JoinUndo(c) \/ JoinUndone(c)
    <3>1. /\ \A d \in Callers \ {c} : pc'[d] = pc[d] /\ list'[d] = list[d]
          /\ UNCHANGED <<handle, taken, finish>>
          /\ \/ list'[c] \in {"none", "shut"}
             \/ list'[c] = list[c] /\ pc[c] = "undone"
      BY <1>1, <2>4, GotoOne DEF JoinUndo, JoinUndone, Shut, closeVars
    <3> QED BY <1>1, <3>1 DEF ListsOwned
  <2> QED BY <1>2, <2>1, <2>2, <2>3, <2>4 DEF InCall, Joining
<1>3. CASE FinishTake \/ FinishDone \/ SweepLoopEnds
  BY <1>1, <1>3 DEF FinishTake, FinishDone, SweepLoopEnds, ListsOwned
<1>4. CASE FinishLeave
  <2>1. /\ \A d \in Callers : list'[d] # list[d] => taken = d
        /\ finish' = "shut" /\ finish = "leave" /\ UNCHANGED <<pc, handle, taken>>
    BY <1>1, <1>4 DEF FinishLeave
  <2> QED BY <1>1, <2>1 DEF ListsOwned
<1>5. CASE FinishShut
  <2>1. /\ \A d \in Callers : IF taken = d THEN list'[d] \in {"none", "shut"} ELSE list'[d] = list[d]
        /\ finish = "shut" /\ UNCHANGED <<pc, handle>>
    BY <1>1, <1>5 DEF FinishShut, Shut
  <2> QED BY <1>1, <2>1 DEF ListsOwned
<1>6. CASE RunMoves
  BY <1>1, <1>6, GotoOne DEF RunMoves, nodeVars, closeVars, ListsOwned, Joins
<1>7. CASE Exit
  BY <1>1, <1>7 DEF Exit, ListsOwned, OneJoin, Joins
<1> QED BY <1>2, <1>3, <1>4, <1>5, <1>6, <1>7, RunSteps DEF Next, Run, Finish

\* How far run has come on its way out, after every step.
LEMMA WayOutNext ==
  ASSUME LifeInv, Next
  PROVE  WayOut'
<1>1. LifeTypeOK /\ OneJoin /\ WayOut /\ Main \in Callers
  BY DEF LifeInv, Callers
<1>2. ASSUME NEW c \in Callers, Call(c) \/ InCall(c)
      PROVE  WayOut'
  <2>1. UNCHANGED processVars /\ Servers' = Servers
    BY <1>2 DEF Call, InCall, Joining, JoinEnter, JoinInvalid, JoinCreate, JoinChecks,
                JoinInstall, JoinUndo, JoinUndone, CloseCall, CloseReturn, processVars, runVars, Servers
  <2>2. ctxDone => ctxDone'
    BY <1>2 DEF Call, InCall, Joining, JoinEnter, JoinInvalid, JoinCreate, JoinChecks,
                JoinInstall, JoinUndo, JoinUndone, CloseCall, CloseReturn
  <2>3. finish = "done" => finish' = "done"
    BY <1>2 DEF Call, InCall, Joining, JoinEnter, JoinInvalid, JoinCreate, JoinChecks,
                JoinInstall, JoinUndo, JoinUndone, CloseCall, CloseReturn, closeVars
  <2>4. CASE c # Main
    <3>1. pc'[Main] = pc[Main]
      <4>1. CASE Call(c) \/ CloseCall(c) \/ CloseReturn(c)
        BY <1>1, <2>4, <4>1, GotoOne DEF Call, CloseCall, CloseReturn
      <4>2. CASE JoinEnter(c) \/ JoinInvalid(c) \/ JoinCreate(c)
        BY <1>1, <2>4, <4>2, GotoOne DEF JoinEnter, JoinInvalid, JoinCreate
      <4>3. CASE JoinChecks(c) \/ JoinInstall(c) \/ JoinUndo(c) \/ JoinUndone(c)
        BY <1>1, <2>4, <4>3, GotoOne DEF JoinChecks, JoinInstall, JoinUndo, JoinUndone
      <4> QED BY <1>2, <4>1, <4>2, <4>3 DEF InCall, Joining
    <3> QED BY <1>1, <2>1, <2>2, <2>3, <3>1 DEF WayOut, processVars, runVars
  <2>5. CASE c = Main /\ (CloseCall(c) \/ CloseReturn(c))
    <3>1. \/ pc[Main] = "close" /\ pc'[Main] = "closing" /\ ctxDone'
          \/ pc[Main] = "closing" /\ pc'[Main] = "closed" /\ (finish = "done" \/ expired)
      BY <1>1, <2>5, GotoOne DEF CloseCall, CloseReturn
    <3> QED BY <1>1, <2>1, <2>2, <2>3, <3>1 DEF WayOut, processVars, runVars
  <2>6. CASE c = Main /\ (Call(c) \/ Joining(c))
    <3>1. pc[Main] \in Joins \cup {"enter"}
      BY <2>6, LifecycleAssumption
         DEF Call, Joining, JoinEnter, JoinInvalid, JoinCreate, JoinChecks, JoinInstall,
             JoinUndo, JoinUndone, Joins
    <3>2. pc'[Main] \in Joins \cup {"refused", "joined"}
      <4>1. CASE Call(c) \/ JoinEnter(c) \/ JoinInvalid(c) \/ JoinCreate(c)
        BY <1>1, <2>6, <4>1, LifecycleAssumption, GotoOne
           DEF Call, JoinEnter, JoinInvalid, JoinCreate, Joins
      <4>2. CASE JoinChecks(c) \/ JoinInstall(c) \/ JoinUndo(c) \/ JoinUndone(c)
        BY <1>1, <2>6, <4>2, GotoOne DEF JoinChecks, JoinInstall, JoinUndo, JoinUndone, Joins
      <4> QED BY <2>6, <4>1, <4>2 DEF Joining
    <3> QED BY <1>1, <2>1, <3>1, <3>2 DEF WayOut, processVars, runVars, Joins
  <2> QED BY <1>2, <2>4, <2>5, <2>6 DEF InCall
<1>3. CASE Finish \/ SweepLoopEnds
  <2>1. UNCHANGED <<pc, ctxDone, processVars>> /\ (finish = "done" => finish' = "done")
    BY <1>3 DEF Finish, FinishTake, FinishLeave, FinishShut, FinishDone, SweepLoopEnds
  <2> QED BY <1>1, <2>1 DEF WayOut, processVars, runVars, Servers
<1>4. CASE Signal \/ Expire \/ \E s \in Servers : ServeFails(s) \/ Accept(s) \/ Handled(s)
  <2>1. CASE Signal
    BY <1>1, <2>1, GotoOne DEF Signal, WayOut, nodeVars, closeVars, processVars, runVars, Servers
  <2>2. CASE Expire
    BY <1>1, <2>2 DEF Expire, WayOut, nodeVars, closeVars, Servers
  <2>3. ASSUME NEW s \in Servers, ServeFails(s)
        PROVE  WayOut'
    BY <1>1, <2>3 DEF ServeFails, WayOut, nodeVars, closeVars, Servers, LifeTypeOK
  <2>4. CASE \E s \in Servers : Accept(s) \/ Handled(s)
    BY <1>1, <2>4 DEF Accept, Handled, WayOut, nodeVars, closeVars, Servers
  <2> QED BY <1>4, <2>1, <2>2, <2>3, <2>4
<1>5. ASSUME NEW s \in Servers, Bind(s) \/ CloseListener(s) \/ Shutdown(s)
      PROVE  WayOut'
  <2>1. s \in Plain \cup {Peer} /\ Servers' = Servers /\ UNCHANGED <<pc, ctxDone, finish, deferred, expired>>
    BY <1>5 DEF Servers, Bind, CloseListener, Shutdown, nodeVars, closeVars, runVars
  <2>2. pc[Main] \in {"bind", "closed"}
    BY <1>5 DEF Bind, CloseListener, Shutdown, Stopping
  <2>3. deferred => \A t \in stopped' : server'[t] = "closed"
    BY <1>1, <1>5, <2>1 DEF Bind, CloseListener, Shutdown, Turn, runVars, WayOut, LifeTypeOK
  <2> QED BY <1>1, <2>1, <2>2, <2>3 DEF WayOut
<1>6. CASE BindFails \/ JoinFailed \/ ServeErrors \/ RunReturns
  BY <1>1, <1>6, GotoOne DEF BindFails, JoinFailed, ServeErrors, RunReturns, Return, WayOut
<1>7. CASE StartPeer \/ StartRest
  <2>1. /\ pc[Main] \in {"bind", "joined"} /\ pc'[Main] \in {"enter", "running"}
        /\ UNCHANGED deferred
    BY <1>1, <1>7, GotoOne DEF StartPeer, StartRest, Bound, runVars
  <2> QED BY <1>1, <2>1 DEF WayOut
<1>8. CASE Exit
  BY <1>1, <1>8 DEF Exit, AllStopped, Stopping, WayOut, Servers
<1> QED BY <1>2, <1>3, <1>4, <1>5, <1>6, <1>7, <1>8 DEF Next, Run

\* Gossip does not precede the peer server, after every step.
LEMMA PeerFirstNext ==
  ASSUME LifeInv, Next
  PROVE  PeerFirst'
<1>1. LifeTypeOK /\ OneJoin /\ PeerFirst /\ Main \in Callers
  BY DEF LifeInv, Callers
<1>2. ASSUME NEW c \in Callers, Call(c) \/ InCall(c)
      PROVE  PeerFirst'
  <2>1. UNCHANGED <<clustered, server>>
    BY <1>2 DEF Call, InCall, Joining, JoinEnter, JoinInvalid, JoinCreate, JoinChecks,
                JoinInstall, JoinUndo, JoinUndone, CloseCall, CloseReturn, processVars, runVars
  <2>2. CASE c # Main
    <3>1. pc'[Main] = pc[Main]
      BY <1>1, <1>2, <2>2, GotoOne
         DEF Call, InCall, Joining, JoinEnter, JoinInvalid, JoinCreate, JoinChecks,
             JoinInstall, JoinUndo, JoinUndone, CloseCall, CloseReturn
    <3>2. list'[Main] = list[Main]
      BY <1>1, <1>2, <2>2
         DEF Call, InCall, Joining, JoinEnter, JoinInvalid, JoinCreate, JoinChecks,
             JoinInstall, JoinUndo, JoinUndone, CloseCall, CloseReturn, Shut, LifeTypeOK
    <3> QED BY <1>1, <2>1, <3>1, <3>2 DEF PeerFirst
  <2>3. CASE c = Main /\ (Call(c) \/ CloseCall(c) \/ CloseReturn(c))
    <3>1. pc'[Main] \in {"closing", "closed"} /\ UNCHANGED list
      BY <1>1, <2>3, GotoOne, LifecycleAssumption DEF Call, CloseCall, CloseReturn
    <3> QED BY <1>1, <2>1, <3>1 DEF PeerFirst, Joins
  <2>4. CASE c = Main /\ Joining(c)
    <3>1. pc[Main] \in Joins \cup {"enter"}
      BY <2>4 DEF Joining, JoinEnter, JoinInvalid, JoinCreate, JoinChecks, JoinInstall,
                  JoinUndo, JoinUndone, Joins
    <3> QED BY <1>1, <2>1, <3>1 DEF PeerFirst
  <2> QED BY <1>2, <2>2, <2>3, <2>4 DEF InCall
<1>3. CASE Finish \/ SweepLoopEnds
  <2>1. UNCHANGED <<pc, clustered, server>>
    BY <1>3 DEF Finish, FinishTake, FinishLeave, FinishShut, FinishDone, SweepLoopEnds, processVars, runVars
  <2>2. list'[Main] = "live" => list[Main] = "live"
    BY <1>1, <1>3 DEF Finish, FinishTake, FinishLeave, FinishShut, FinishDone, SweepLoopEnds, Shut, LifeTypeOK
  <2> QED BY <1>1, <2>1, <2>2 DEF PeerFirst
<1>4. ASSUME UNCHANGED <<list, clustered>>, pc'[Main] \in Joins \cup {"enter"} => pc'[Main] = pc[Main],
             server[Peer] \notin {"unbound", "bound"} => server'[Peer] \notin {"unbound", "bound"}
      PROVE  PeerFirst'
  BY <1>1, <1>4 DEF PeerFirst
<1>5. CASE \E s \in Servers : Bind(s) \/ CloseListener(s) \/ Shutdown(s)
  BY <1>1, <1>4, <1>5 DEF Bind, CloseListener, Shutdown, nodeVars, runVars, Servers, LifeTypeOK
<1>6. CASE BindFails \/ JoinFailed \/ ServeErrors \/ RunReturns
  <2>1. /\ UNCHANGED <<list, clustered>> /\ pc'[Main] \notin Joins \cup {"enter"}
        /\ UNCHANGED server
    <3>1. CASE BindFails \/ JoinFailed
      BY <1>1, <3>1, GotoOne DEF BindFails, JoinFailed, Return, nodeVars, runVars, Joins
    <3>2. CASE ServeErrors \/ RunReturns
      BY <1>1, <3>2, GotoOne DEF ServeErrors, RunReturns, Return, nodeVars, runVars, Joins
    <3> QED BY <1>6, <3>1, <3>2
  <2> QED BY <1>4, <2>1
<1>7. CASE StartPeer
  BY <1>1, <1>7 DEF StartPeer, runVars, PeerFirst, LifeTypeOK
<1>8. CASE StartRest
  BY <1>1, <1>4, <1>8, GotoOne DEF StartRest, nodeVars, runVars, Joins, LifeTypeOK
<1>9. CASE Signal \/ Expire
  BY <1>1, <1>4, <1>9, GotoOne DEF Signal, Expire, nodeVars, processVars, runVars, Joins
<1>10. CASE \E s \in Servers : ServeFails(s) \/ Accept(s) \/ Handled(s)
  BY <1>1, <1>4, <1>10 DEF ServeFails, Accept, Handled, nodeVars, Servers, LifeTypeOK
<1>11. CASE Exit
  BY <1>1, <1>4, <1>11 DEF Exit, Joins
<1> QED BY <1>2, <1>3, <1>5, <1>6, <1>7, <1>8, <1>9, <1>10, <1>11 DEF Next, Run

\* The invariant holds when run starts, and every step of the node keeps it,
\* whoever else calls JoinCluster and Close.
THEOREM LifeInvariance == Spec => []LifeInv
<1>1. ASSUME LifeInv, [Next]_vars
      PROVE  LifeInv'
  <2>1. CASE Next
    BY <1>1, <2>1, LifeTypes, OneJoinNext, ListsOwnedNext, WayOutNext, PeerFirstNext DEF LifeInv
  <2>2. CASE UNCHANGED vars
    <3>1. LifeTypeOK' /\ OneJoin' /\ ListsOwned'
      BY <1>1, <2>2 DEF vars, nodeVars, closeVars, processVars, runVars, LifeInv, LifeTypeOK, OneJoin, ListsOwned
    <3>2. WayOut' /\ PeerFirst'
      BY <1>1, <2>2 DEF vars, nodeVars, closeVars, processVars, runVars, LifeInv, WayOut, PeerFirst, Servers
    <3> QED BY <3>1, <3>2 DEF LifeInv
  <2> QED BY <1>1, <2>1, <2>2
<1> QED BY <1>1, LifeStart, PTL DEF Spec

\* Once Close is done no memberlist is alive, however many goroutines were
\* joining: closeCluster waits for a join in progress, and a join that finds the
\* proxy closed shuts its own memberlist down (cluster.go:171-318).
THEOREM LifeNoOrphan == Spec => []NoOrphan
<1>1. LifeInv => NoOrphan
  <2> SUFFICES ASSUME LifeInv, finish = "done" PROVE handle = Nobody /\ \A c \in Callers : list[c] \in {"none", "shut"}
    BY DEF NoOrphan
  <2>1. joining = Nobody /\ handle = Nobody
    BY DEF LifeInv, OneJoin
  <2>2. \A c \in Callers : pc[c] \notin Joins
    BY <2>1, LifecycleAssumption DEF LifeInv, OneJoin, Callers
  <2> QED BY <2>1, <2>2, LifecycleAssumption DEF LifeInv, LifeTypeOK, ListsOwned, Joins, Callers
<1> QED BY <1>1, LifeInvariance, PTL

\* However run returns, the process ends closed and with no listener open, those
\* of servers bound and never started included (main.go:57-65).
THEOREM LifeNothingOpen == Spec => []NothingOpenAtExit
<1>1. LifeInv => NothingOpenAtExit
  BY DEF LifeInv, WayOut, NothingOpenAtExit
<1> QED BY <1>1, LifeInvariance, PTL

\* The peer server is up while its node is gossiped, and is stopped only after
\* the memberlist has left or the time to close has run out (main.go:124-171).
THEOREM LifePeerReachable == Spec => PeerReachable
<1>1. ASSUME LifeInv, LifeInv', [Next]_vars
      PROVE  [/\ clustered /\ list'[Main] = "live" => server'[Peer] # "bound"
              /\ clustered /\ server[Peer] = "serving" /\ server'[Peer] = "closed"
                   => list[Main] # "live" \/ expired]_vars
  <2> SUFFICES ASSUME Next
               PROVE  /\ clustered /\ list'[Main] = "live" => server'[Peer] # "bound"
                      /\ clustered /\ server[Peer] = "serving" /\ server'[Peer] = "closed"
                           => list[Main] # "live" \/ expired
    BY <1>1
  <2>1. clustered' = clustered
    BY DEF Next, Run, Bind, CloseListener, Shutdown, BindFails, StartPeer, JoinFailed, StartRest,
           ServeErrors, RunReturns, Exit, Signal, Expire, Call, InCall, Joining, JoinEnter,
           JoinInvalid, JoinCreate, JoinChecks, JoinInstall, JoinUndo, JoinUndone, CloseCall,
           CloseReturn, Finish, FinishTake, FinishLeave, FinishShut, FinishDone, SweepLoopEnds,
           ServeFails, Accept, Handled, processVars, runVars
  <2>2. clustered /\ list'[Main] = "live" => server'[Peer] # "bound"
    BY <1>1, <2>1 DEF LifeInv, PeerFirst
  <2>3. ASSUME server[Peer] = "serving", server'[Peer] = "closed"
        PROVE  pc[Main] = "closed"
    <3>1. server' # server
      BY <2>3
    <3>2. CASE Run
      <4>1. CASE \E s \in Servers : Bind(s) \/ CloseListener(s) \/ Shutdown(s)
        BY <1>1, <2>3, <3>1, <4>1
           DEF Bind, CloseListener, Shutdown, Stopping, Servers, LifeInv, LifeTypeOK
      <4>2. CASE StartPeer \/ StartRest
        BY <1>1, <2>3, <3>1, <4>2 DEF StartPeer, StartRest, Servers, LifeInv, LifeTypeOK
      <4>3. CASE BindFails \/ JoinFailed \/ ServeErrors \/ RunReturns \/ Exit
        BY <3>1, <4>3 DEF BindFails, JoinFailed, ServeErrors, RunReturns, Exit
      <4> QED BY <3>2, <4>1, <4>2, <4>3 DEF Run
    <3>3. CASE \E s \in Servers : ServeFails(s) \/ Accept(s) \/ Handled(s)
      BY <1>1, <2>3, <3>1, <3>3 DEF ServeFails, Accept, Handled, Servers, LifeInv, LifeTypeOK
    <3>4. CASE Signal \/ Expire \/ Finish \/ SweepLoopEnds \/ \E c \in Callers : Call(c) \/ InCall(c)
      BY <3>1, <3>4 DEF Signal, Expire, Call, InCall, Joining, JoinEnter, JoinInvalid, JoinCreate,
           JoinChecks, JoinInstall, JoinUndo, JoinUndone, CloseCall, CloseReturn, Finish,
           FinishTake, FinishLeave, FinishShut, FinishDone, SweepLoopEnds, processVars, runVars
    <3> QED BY <3>2, <3>3, <3>4 DEF Next
  <2>4. pc[Main] = "closed" => list[Main] # "live" \/ expired
    <3> SUFFICES ASSUME pc[Main] = "closed", ~expired PROVE list[Main] # "live"
      OBVIOUS
    <3>1. finish = "done" /\ handle = Nobody /\ Main \in Callers
      BY <1>1 DEF LifeInv, WayOut, OneJoin, Callers
    <3> QED BY <1>1, <3>1, LifecycleAssumption DEF LifeInv, ListsOwned, Callers
  <2> QED BY <2>2, <2>3, <2>4
<1> QED BY <1>1, LifeInvariance, PTL DEF Spec, PeerReachable

=============================================================================
