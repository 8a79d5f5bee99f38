----------------------------- MODULE BodyReplay -----------------------------
(***************************************************************************)
(* bodyReplay and captureBody of internal/proxy/transport.go: the body of a *)
(* request is recorded while the first attempt sends it, in memory and then *)
(* in a temporary file, so that an absorbed 429 can send it again.  All    *)
(* requests share resourceBudget retryCapture (proxy.go).                  *)
(*                                                                         *)
(* The transport reads the body in a goroutine of its own, which may still *)
(* be reading when Discord has answered or RoundTrip has returned.  A body *)
(* is known by how many bytes of it have been read and kept.               *)
(***************************************************************************)
EXTENDS Integers, FiniteSets, FiniteSetsExt

CONSTANTS
  Bodies,   \* the requests that have a body
  MaxBody,  \* bound: the length of a body
  Limit,    \* MaxRetryBodyBytes
  Memory,   \* retryMemoryLimit
  Budget    \* the limit of retryCapture

ASSUME BodyAssumption ==
  /\ IsFiniteSet(Bodies)
  /\ MaxBody \in Nat \ {0} /\ Limit \in Nat /\ Memory \in Nat /\ Budget \in Nat

VARIABLES
  stage,     \* where RoundTrip is with the body
  size,      \* the length of the body
  known,     \* its Content-Length is
  reader,    \* where the transport's Read is
  fetched,   \* what the Read in progress has got: bytes, and end of file
  read,      \* captureBody.read
  buffer,    \* bytes in captureBody.buffer
  file,      \* the temporary file: "none", "open" (captureBody.file) or "closed"
  disk,      \* bytes in it
  complete, overflow, sealed,  \* of captureBody
  reserved,  \* captureBody.reserved
  loaded,    \* what resourceBudget.reserve has loaded
  data,      \* length of what a retry sends; -1 before prepareRetry
  used       \* resourceBudget.used of retryCapture

capture == <<read, buffer, file, disk, complete, overflow, sealed>>
bodyVars == <<stage, size, known, reader, fetched, capture, reserved, loaded, data, used>>

BodyInit ==
  /\ stage = [q \in Bodies |-> "new"]
  /\ size \in [Bodies -> 1..MaxBody]
  /\ known \in [Bodies -> BOOLEAN]
  /\ reader = [q \in Bodies |-> "off"]
  /\ fetched = [q \in Bodies |-> [bytes |-> 0, eof |-> FALSE]]
  /\ read = [q \in Bodies |-> 0]
  /\ buffer = [q \in Bodies |-> 0]
  /\ file = [q \in Bodies |-> "none"]
  /\ disk = [q \in Bodies |-> 0]
  /\ complete = [q \in Bodies |-> FALSE]
  /\ overflow = [q \in Bodies |-> FALSE]
  /\ sealed = [q \in Bodies |-> FALSE]
  /\ reserved = [q \in Bodies |-> 0]
  /\ loaded = [q \in Bodies |-> -1]
  /\ data = [q \in Bodies |-> -1]
  /\ used = 0

Smaller(a, b) == IF a <= b THEN a ELSE b

-----------------------------------------------------------------------------
(* resourceBudget                                                          *)

\* reserve loads the bytes in use and finds room for n more.
Load(q, n) ==
  /\ loaded[q] = -1
  /\ n <= Budget - used
  /\ loaded' = [loaded EXCEPT ![q] = used]

\* There is no room for n more.
Exhausted(q, n) == loaded[q] = -1 /\ n > Budget - used

\* Fault: the new value is stored whatever became of the old one.
SwapBlind(q, n) ==
  /\ loaded[q] # -1
  /\ used' = loaded[q] + n
  /\ reserved' = [reserved EXCEPT ![q] = @ + n]
  /\ loaded' = [loaded EXCEPT ![q] = -1]

\* CompareAndSwap succeeds.
Swap(q, n) ==
  /\ loaded[q] # -1
  /\ used = loaded[q]
  /\ used' = used + n
  /\ reserved' = [reserved EXCEPT ![q] = @ + n]
  /\ loaded' = [loaded EXCEPT ![q] = -1]

\* CompareAndSwap fails: reserve loads again.
Reload(q) ==
  /\ loaded[q] # -1
  /\ used # loaded[q]
  /\ loaded' = [loaded EXCEPT ![q] = -1]
  /\ UNCHANGED <<stage, size, known, reader, fetched, capture, reserved, data, used>>

-----------------------------------------------------------------------------
(* newBodyReplay                                                           *)

\* A body that is too long, or with no budget at all, is sent but not recorded.
BeginUncaptured(q) ==
  /\ stage[q] = "new"
  /\ (known[q] /\ size[q] > Limit) \/ Budget = 0
  /\ overflow' = [overflow EXCEPT ![q] = TRUE]
  /\ stage' = [stage EXCEPT ![q] = "sending"]
  /\ reader' = [reader EXCEPT ![q] = "idle"]
  /\ UNCHANGED <<size, known, fetched, read, buffer, file, disk, complete, sealed,
                 reserved, loaded, data, used>>

\* The length is not known: bytes are reserved as they come.
BeginUnknown(q) ==
  /\ stage[q] = "new"
  /\ ~known[q] /\ Budget > 0
  /\ stage' = [stage EXCEPT ![q] = "sending"]
  /\ reader' = [reader EXCEPT ![q] = "idle"]
  /\ UNCHANGED <<size, known, fetched, capture, reserved, loaded, data, used>>

BeginLoad(q) ==
  /\ stage[q] = "new"
  /\ known[q] /\ size[q] <= Limit /\ Budget > 0
  /\ Load(q, size[q])
  /\ UNCHANGED <<stage, size, known, reader, fetched, capture, reserved, data, used>>

BeginSwap(q) ==
  /\ stage[q] = "new"
  /\ Swap(q, size[q])
  /\ stage' = [stage EXCEPT ![q] = "sending"]
  /\ reader' = [reader EXCEPT ![q] = "idle"]
  /\ UNCHANGED <<size, known, fetched, capture, data>>

\* errRetryCaptureBudget: nothing is sent.
BeginRefused(q) ==
  /\ stage[q] = "new"
  /\ known[q] /\ size[q] <= Limit /\ Budget > 0
  /\ Exhausted(q, size[q])
  /\ stage' = [stage EXCEPT ![q] = "closed"]
  /\ UNCHANGED <<size, known, reader, fetched, capture, reserved, loaded, data, used>>

-----------------------------------------------------------------------------
(* captureBody.Read, in the transport's goroutine                          *)

\* The client's body delivers bytes, with its end or before it.
Fetch(q) ==
  /\ reader[q] = "idle"
  /\ \E n \in 0..size[q] - read[q], eof \in BOOLEAN :
       /\ n > 0 \/ eof
       /\ eof => read[q] + n = size[q]
       /\ fetched' = [fetched EXCEPT ![q] = [bytes |-> n, eof |-> eof]]
  /\ reader' = [reader EXCEPT ![q] = "fetched"]
  /\ UNCHANGED <<stage, size, known, capture, reserved, loaded, data, used>>

\* The transport stops reading, or the client's body fails.
Stop(q) ==
  /\ reader[q] = "idle"
  /\ reader' = [reader EXCEPT ![q] = "off"]
  /\ UNCHANGED <<stage, size, known, fetched, capture, reserved, loaded, data, used>>

\* Empty the buffer and remove the temporary file.
Drop(q) ==
  /\ buffer' = [buffer EXCEPT ![q] = 0]
  /\ file' = [file EXCEPT ![q] = "none"]
  /\ disk' = [disk EXCEPT ![q] = 0]

\* releaseReservationLocked
ReleaseReservation(q) ==
  /\ used' = used - reserved[q]
  /\ reserved' = [reserved EXCEPT ![q] = 0]

\* Fault: the capture is not marked as overflown.
DiscardOpen(q) == Drop(q) /\ ReleaseReservation(q) /\ UNCHANGED overflow

\* discardLocked: drop what was recorded and return the reservation.
Discard(q) ==
  /\ overflow' = [overflow EXCEPT ![q] = TRUE]
  /\ Drop(q)
  /\ ReleaseReservation(q)

\* Bytes read once the fetched ones are counted, and those not yet reserved.
ReadNow(q) == read[q] + fetched[q].bytes

Additional(q) == ReadNow(q) - reserved[q]

\* Read ends: it has counted its bytes and seen whether they are the last.
EndRead(q) ==
  /\ read' = [read EXCEPT ![q] = ReadNow(q)]
  /\ complete' = [complete EXCEPT ![q] =
                    @ \/ fetched[q].eof \/ (known[q] /\ ReadNow(q) = size[q])]
  /\ reader' = [reader EXCEPT ![q] = IF fetched[q].eof THEN "off" ELSE "idle"]
  /\ fetched' = [fetched EXCEPT ![q] = [bytes |-> 0, eof |-> FALSE]]
  /\ UNCHANGED <<stage, size, known, sealed, data>>

\* The mutex of the capture is free: Read is not inside captureLocked.
Unlocked(q) == reader[q] \notin {"reserving", "storing"}

\* Nothing to record.
RecordNothing(q) ==
  /\ reader[q] = "fetched"
  /\ fetched[q].bytes = 0 \/ overflow[q] \/ sealed[q]
  /\ EndRead(q)
  /\ UNCHANGED <<buffer, file, disk, overflow, reserved, loaded, used>>

Recording(q) == fetched[q].bytes > 0 /\ ~overflow[q] /\ ~sealed[q]

\* The body exceeds the limit, or the budget is exhausted.
RecordTooMuch(q) ==
  /\ reader[q] \in {"fetched", "reserving"}
  /\ Recording(q)
  /\ ReadNow(q) > Limit \/ (Additional(q) > 0 /\ Exhausted(q, Additional(q)))
  /\ Discard(q)
  /\ EndRead(q)
  /\ UNCHANGED loaded

\* Bytes that are not reserved yet must be: the capture's mutex is held meanwhile.
RecordLoad(q) ==
  /\ reader[q] \in {"fetched", "reserving"}
  /\ Recording(q)
  /\ ReadNow(q) <= Limit /\ Additional(q) > 0
  /\ Load(q, Additional(q))
  /\ reader' = [reader EXCEPT ![q] = "reserving"]
  /\ UNCHANGED <<stage, size, known, fetched, capture, reserved, data, used>>

RecordSwap(q) ==
  /\ reader[q] = "reserving"
  /\ Swap(q, Additional(q))
  /\ reader' = [reader EXCEPT ![q] = "storing"]
  /\ UNCHANGED <<stage, size, known, fetched, capture, data>>

\* The bytes are reserved.
MayStore(q) ==
  /\ reader[q] \in {"fetched", "storing"}
  /\ Recording(q)
  /\ ReadNow(q) <= Limit /\ Additional(q) <= 0

FitsMemory(q) == file[q] = "none" /\ buffer[q] + fetched[q].bytes <= Smaller(Limit, Memory)

StoreMemory(q) ==
  /\ MayStore(q)
  /\ FitsMemory(q)
  /\ buffer' = [buffer EXCEPT ![q] = @ + fetched[q].bytes]
  /\ EndRead(q)
  /\ UNCHANGED <<file, disk, overflow, reserved, loaded, used>>

\* Into the temporary file, which takes over what memory holds.
StoreFile(q) ==
  /\ MayStore(q)
  /\ ~FitsMemory(q)
  /\ file' = [file EXCEPT ![q] = "open"]
  /\ disk' = [disk EXCEPT ![q] = @ + buffer[q] + fetched[q].bytes]
  /\ buffer' = [buffer EXCEPT ![q] = 0]
  /\ EndRead(q)
  /\ UNCHANGED <<overflow, reserved, loaded, used>>

\* The file cannot be created or written.
StoreFailed(q) ==
  /\ MayStore(q)
  /\ ~FitsMemory(q)
  /\ Discard(q)
  /\ EndRead(q)
  /\ UNCHANGED loaded

-----------------------------------------------------------------------------
(* prepareRetry and close, in RoundTrip                                    *)

\* Fault: a body that was not read to its end is replayed.
ReplayableEarly(q) == ~overflow[q]

Replayable(q) == complete[q] /\ ~overflow[q]

\* A 429, and replay has the whole body: seal it.
Prepare(q) ==
  /\ stage[q] = "sending"
  /\ Unlocked(q)
  /\ Replayable(q)
  /\ sealed' = [sealed EXCEPT ![q] = TRUE]
  /\ data' = [data EXCEPT ![q] = IF file[q] = "open" THEN disk[q] ELSE buffer[q]]
  /\ buffer' = [buffer EXCEPT ![q] = 0]
  /\ file' = [file EXCEPT ![q] = IF @ = "open" THEN "closed" ELSE @]
  /\ stage' = [stage EXCEPT ![q] = "resending"]
  /\ UNCHANGED <<size, known, reader, fetched, read, disk, complete, overflow,
                 reserved, loaded, used>>

\* The temporary file cannot be closed: RoundTrip returns errRetryPreparation.
PrepareFailed(q) ==
  /\ stage[q] = "sending"
  /\ Unlocked(q)
  /\ Replayable(q) /\ file[q] = "open"
  /\ sealed' = [sealed EXCEPT ![q] = TRUE]
  /\ file' = [file EXCEPT ![q] = "closed"]
  /\ stage' = [stage EXCEPT ![q] = "closing"]
  /\ UNCHANGED <<size, known, reader, fetched, read, buffer, disk, complete,
                 overflow, reserved, loaded, data, used>>

\* RoundTrip returns: an answer, an error, or a 429 that cannot be retried.
RoundTripReturns(q) ==
  /\ stage[q] \in {"sending", "resending"}
  /\ stage' = [stage EXCEPT ![q] = "closing"]
  /\ UNCHANGED <<size, known, reader, fetched, capture, reserved, loaded, data, used>>

\* The deferred close.
CloseBody(q) ==
  /\ stage[q] = "closing"
  /\ Unlocked(q)
  /\ Discard(q)
  /\ stage' = [stage EXCEPT ![q] = "closed"]
  /\ UNCHANGED <<size, known, reader, fetched, read, complete, sealed, loaded, data>>

-----------------------------------------------------------------------------

BeginBody(q) ==
  BeginUncaptured(q) \/ BeginUnknown(q) \/ BeginLoad(q) \/ BeginSwap(q) \/ BeginRefused(q)

Record(q) ==
  \/ RecordNothing(q) \/ RecordTooMuch(q) \/ RecordLoad(q) \/ RecordSwap(q)
  \/ StoreMemory(q) \/ StoreFile(q) \/ StoreFailed(q)

BodyNext ==
  \E q \in Bodies :
    \/ BeginBody(q) \/ Reload(q)
    \/ Fetch(q) \/ Stop(q) \/ Record(q)
    \/ Prepare(q) \/ PrepareFailed(q) \/ RoundTripReturns(q) \/ CloseBody(q)

BodySpec == BodyInit /\ [][BodyNext]_bodyVars

-----------------------------------------------------------------------------
(* Properties                                                              *)

\* Types; the budget is never returned more than was taken (transport.go:397-417).
BodyTypeOK ==
  /\ stage \in [Bodies -> {"new", "sending", "resending", "closing", "closed"}]
  /\ size \in [Bodies -> 1..MaxBody] /\ known \in [Bodies -> BOOLEAN]
  /\ reader \in [Bodies -> {"off", "idle", "fetched", "reserving", "storing"}]
  /\ fetched \in [Bodies -> [bytes : 0..MaxBody, eof : BOOLEAN]]
  /\ read \in [Bodies -> 0..MaxBody]
  /\ buffer \in [Bodies -> 0..MaxBody] /\ disk \in [Bodies -> 0..MaxBody]
  /\ file \in [Bodies -> {"none", "open", "closed"}]
  /\ complete \in [Bodies -> BOOLEAN] /\ overflow \in [Bodies -> BOOLEAN]
  /\ sealed \in [Bodies -> BOOLEAN]
  /\ reserved \in [Bodies -> Nat] /\ used \in Nat
  /\ loaded \in [Bodies -> Nat \cup {-1}] /\ data \in [Bodies -> Nat \cup {-1}]

\* The budget in use is what the captures have reserved, and within its limit,
\* though each reserves in two steps that the others interleave
\* (proxy.go:113-132).
BudgetExact ==
  /\ used = MapThenSumSet(LAMBDA q : reserved[q], Bodies)
  /\ used <= Budget

\* What a capture keeps in memory and on disk.
Kept(q) == buffer[q] + disk[q] + (IF data[q] > 0 /\ file[q] = "none" THEN data[q] ELSE 0)

\* Until the request is closed what it keeps is reserved, so that captures
\* together never keep more than the budget, and memory holds little of it
\* (transport.go:360-395).
KeptReserved ==
  \A q \in Bodies :
    /\ stage[q] # "closed" => Kept(q) <= reserved[q]
    /\ buffer[q] <= Smaller(Limit, Memory)

\* Captures together never keep more than their budget (CONFIG.md:67,
\* MAX_RETRY_CAPTURE_BYTES): it counts what is reserved, and what is kept is.
CaptureBounded == BodyTypeOK /\ BudgetExact /\ KeptReserved

\* A request that has returned leaves no reservation, buffer or temporary file,
\* even when the transport still reads its body (transport.go:360-363, 397-443).
NothingLeft ==
  \A q \in Bodies : stage[q] = "closed" =>
    reserved[q] = 0 /\ buffer[q] = 0 /\ disk[q] = 0 /\ file[q] = "none"

\* A retry sends the whole body, from memory or from a file that is there: never
\* what a transport that was answered early had read so far (transport.go:419-437).
ReplayWhole ==
  \A q \in Bodies : stage[q] = "resending" =>
    data[q] = size[q] /\ (file[q] # "none" => disk[q] = size[q])

-----------------------------------------------------------------------------
(* The inductive invariant                                                 *)

\* What was read of a body is what its capture keeps, until the capture is sealed
\* or discarded; a body is complete only when it was read to its end.
Tallied(q) ==
  /\ ReadNow(q) <= size[q] /\ (fetched[q].eof => ReadNow(q) = size[q])
  /\ complete[q] => read[q] = size[q]
  /\ ~overflow[q] /\ ~sealed[q] => buffer[q] + disk[q] = read[q]
  /\ IF file[q] = "none" THEN disk[q] = 0 ELSE buffer[q] = 0
  /\ file[q] = "closed" => sealed[q]
  /\ overflow[q] => reserved[q] = 0 /\ buffer[q] = 0 /\ file[q] = "none"
  /\ data[q] # -1 => sealed[q]
  /\ sealed[q] => complete[q]

\* A body that nobody has begun to read.
Untouched(q) ==
  /\ reader[q] = "off" /\ ReadNow(q) = 0 /\ reserved[q] = 0 /\ file[q] = "none"
  /\ ~overflow[q] /\ ~sealed[q]

\* What RoundTrip's place says of the capture.
Staged(q) ==
  /\ stage[q] = "new" => Untouched(q)
  /\ stage[q] = "sending" => ~sealed[q]
  /\ stage[q] = "resending" => sealed[q] /\ ~overflow[q]
  /\ stage[q] = "closed" => overflow[q] \/ Untouched(q)
  /\ ~Unlocked(q) => Recording(q)

\* What reserve has loaded leaves room for what it is about to add, and the caller
\* is still where it called reserve.
Reserving(q) ==
  loaded[q] # -1 =>
    \/ /\ stage[q] = "new" /\ known[q] /\ size[q] <= Limit /\ Budget > 0
       /\ loaded[q] + size[q] <= Budget
    \/ /\ reader[q] = "reserving" /\ ReadNow(q) <= Limit
       /\ loaded[q] + Additional(q) <= Budget

BodyInv ==
  /\ CaptureBounded /\ NothingLeft /\ ReplayWhole
  /\ \A q \in Bodies : Tallied(q) /\ Staged(q) /\ Reserving(q)
=============================================================================
