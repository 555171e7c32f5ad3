--------------------------- MODULE MetricsProofs ---------------------------
(***************************************************************************)
(* The safety of the /metrics endpoint for every number of children, every *)
(* response and every size of the cache.                                   *)
(***************************************************************************)
EXTENDS Metrics, TLAPS

-----------------------------------------------------------------------------
(* What the operations of cache.c preserve, for every set of pieces.       *)

\* pgexporter_cache_init returns an empty cache that fits in its buffer.
LEMMA InitCache ==
    ASSUME NEW P, NEW n \in Nat
    PROVE  CacheInit(n) \in CacheOf(P) /\ Fits(CacheInit(n))
BY DEF CacheInit, CacheOf, Fits

\* pgexporter_cache_invalidate returns an empty, invalid cache of the same size.
LEMMA InvalidateCache ==
    ASSUME NEW P, NEW ch \in CacheOf(P)
    PROVE  /\ CacheInvalidate(ch) \in CacheOf(P)
           /\ CacheInvalidate(ch).data = << >>
           /\ CacheInvalidate(ch).valid_until = 0
           /\ CacheInvalidate(ch).size = ch.size
BY DEF CacheInvalidate, CacheOf

\* pgexporter_cache_append keeps the type, never makes a cache valid, and
\* never fills the buffer up to the place of the terminating NUL.
LEMMA AppendCache ==
    ASSUME NEW P, NEW ch \in CacheOf(P), NEW t \in Seq(P)
    PROVE  /\ CacheAppend(ch, t) \in CacheOf(P)
           /\ CacheAppend(ch, t).size = ch.size
           /\ CacheAppend(ch, t).valid_until \in {0, ch.valid_until}
           /\ Fits(ch) => Fits(CacheAppend(ch, t))
<1>1. CASE CacheFits(ch, t)
  <2>1. CacheAppend(ch, t) = [ch EXCEPT !.data = ch.data \o t]
    BY <1>1 DEF CacheAppend
  <2>2. ch.data \o t \in Seq(P) /\ Len(ch.data \o t) = Len(ch.data) + Len(t)
    BY DEF CacheOf
  <2> QED
    BY <1>1, <2>1, <2>2 DEF CacheOf, Fits, CacheFits
<1>2. CASE ~ CacheFits(ch, t)
  BY <1>2, InvalidateCache DEF CacheAppend, Fits
<1> QED
  BY <1>1, <1>2

\* Every piece of the text after an append was there before, at the same
\* place, or is a piece of the appended text that comes after all of them.
LEMMA AppendPieces ==
    ASSUME NEW P, NEW ch \in CacheOf(P), NEW t \in Seq(P),
           NEW i \in 1..Len(CacheAppend(ch, t).data)
    PROVE  \/ /\ i \in 1..Len(ch.data)
              /\ CacheAppend(ch, t).data[i] = ch.data[i]
           \/ /\ i > Len(ch.data)
              /\ \E k \in 1..Len(t) : CacheAppend(ch, t).data[i] = t[k]
<1>1. CASE CacheFits(ch, t)
  <2>1. CacheAppend(ch, t).data = ch.data \o t
    BY <1>1 DEF CacheAppend, CacheOf
  <2>2. Len(ch.data) \in Nat /\ Len(t) \in Nat /\ ch.data \in Seq(P)
    BY DEF CacheOf
  <2>3. CASE i <= Len(ch.data)
    BY <2>1, <2>2, <2>3
  <2>4. CASE i > Len(ch.data)
    <3>1. (ch.data \o t)[i] = t[i - Len(ch.data)]
      BY <2>1, <2>2, <2>4
    <3>2. i - Len(ch.data) \in 1..Len(t)
      BY <2>1, <2>2, <2>4
    <3> QED
      BY <2>1, <2>4, <3>1, <3>2
  <2> QED
    BY <2>1, <2>2, <2>3, <2>4
<1>2. CASE ~ CacheFits(ch, t)
  <2>1. CacheAppend(ch, t).data = << >>
    BY <1>2, InvalidateCache DEF CacheAppend
  <2> QED
    BY <2>1
<1> QED
  BY <1>1, <1>2

\* pgexporter_cache_finalize changes nothing but the validity.
LEMMA FinalizeCache ==
    ASSUME NEW P, NEW ch \in CacheOf(P), NEW age \in Nat, NEW time \in Nat
    PROVE  /\ CacheFinalize(ch, age, time) \in CacheOf(P)
           /\ CacheFinalize(ch, age, time).data = ch.data
           /\ CacheFinalize(ch, age, time).size = ch.size
<1>1. ToSeconds(age) \in Nat
  BY DEF ToSeconds, MillisPerSecond
<1> QED
  BY <1>1 DEF CacheFinalize, CacheOf

-----------------------------------------------------------------------------
(* The inductive invariant.                                                *)

\* A child that has not begun a response has produced no text.
NothingBuiltYet ==
    \A c \in Child :
        pc[c] \in {"idle", "wait", "hit", "miss"} => built[c] = << >>

\* A child that outputs its response is at one of the parts of the body.
PartInRange ==
    \A c \in Child : pc[c] = "output" => part[c] \in 1..LastPart

\* While a child builds its response, the cache holds pieces of that child
\* only, of the parts it has already output.
BuilderOwnsData ==
    \A c \in Child : \A i \in 1..Len(cache.data) :
        /\ pc[c] \in {"header", "scrape", "output"} => cache.data[i].by = c
        /\ pc[c] \in {"header", "scrape"} => cache.data[i].part = 0
        /\ pc[c] = "output" => cache.data[i].part < part[c]

IInv ==
    /\ TypeOK
    /\ LockAccounting
    /\ WithinSize
    /\ NothingBuiltYet
    /\ UnfinishedNotValid
    /\ PartInRange
    /\ BuilderOwnsData
    /\ OneScrape

USE DEF PC, Critical, MainState

-----------------------------------------------------------------------------
(* Facts about texts and configuration.                                    *)

\* The text of a part is a sequence of pieces of that part.
LEMMA TextPieces ==
    ASSUME NEW c \in Child, NEW p \in 0..LastPart
    PROVE  /\ Text(c, p) \in Seq(Piece)
           /\ Text(c, p) # << >>
           /\ \A i \in 1..Len(Text(c, p)) : Text(c, p)[i] = [by |-> c, part |-> p]
<1>1. PartLength[p] \in Nat \ {0}
  BY PartLengthAssumption
<1>2. [by |-> c, part |-> p] \in Piece
  BY DEF Piece
<1>3. Text(c, p) \in [1..PartLength[p] -> Piece]
  BY <1>2 DEF Text
<1>4. Text(c, p) \in Seq(Piece) /\ Len(Text(c, p)) = PartLength[p]
  BY <1>1, <1>3
<1> QED
  BY <1>1, <1>4 DEF Text

\* metrics_cache_size_to_alloc is a size.
LEMMA SizeToAllocType ==
    ASSUME NEW age
    PROVE  SizeToAlloc(age) \in Nat
BY SizesAssumption DEF SizeToAlloc

-----------------------------------------------------------------------------
(* Type correctness.                                                       *)

\* The daemon starts in a state of the right type.
LEMMA InitType == Init => TypeOK
<1> SUFFICES ASSUME Init PROVE TypeOK
  OBVIOUS
<1>1. cache \in CacheOf(Piece)
  BY InitCache, SizeToAllocType DEF Init
<1>2. built \in [Child -> Seq(Sent)]
  BY DEF Init
<1>3. part \in [Child -> 0..LastPart + 1]
  BY LastPartAssumption DEF Init
<1>4. sigterm \in BOOLEAN
  BY DEF Init
<1>5. pc \in [Child -> PC] /\ start_time \in [Child -> Nat]
  BY DEF Init
<1> QED
  BY <1>1, <1>2, <1>3, <1>4, <1>5 DEF Init, TypeOK

\* The text of a part, with or without the end of the header, may be sent.
LEMMA TextSent ==
    ASSUME NEW c \in Child, NEW p \in 0..LastPart
    PROVE  Text(c, p) \in Seq(Sent) /\ Mark(c) \in Seq(Sent)
<1>1. PartLength[p] \in Nat \ {0}
  BY PartLengthAssumption
<1>2. [by |-> c, part |-> p] \in Sent /\ [by |-> c, part |-> EndOfHeader] \in Sent
  BY DEF Sent
<1>3. Text(c, p) \in [1..PartLength[p] -> Sent]
  BY <1>2 DEF Text
<1> QED
  BY <1>1, <1>2, <1>3 DEF Mark

\* What metrics_cache_append and metrics_cache_finalize leave in the cache.
LEMMA CacheTypes ==
    ASSUME TypeOK, NEW c \in Child, NEW p \in 0..LastPart
    PROVE  /\ CacheInvalidate(cache) \in CacheOf(Piece)
           /\ CacheAppend(CacheInvalidate(cache), Text(c, p)) \in CacheOf(Piece)
           /\ MetricsCacheAppend(Text(c, p)) \in CacheOf(Piece)
           /\ MetricsCacheFinalize \in CacheOf(Piece)
<1>1. cache \in CacheOf(Piece) /\ now \in Nat /\ max_age \in Nat
  BY MaxAgesAssumption DEF TypeOK
<1>2. CacheInvalidate(cache) \in CacheOf(Piece)
  BY <1>1, InvalidateCache
<1>3. CacheAppend(CacheInvalidate(cache), Text(c, p)) \in CacheOf(Piece)
  BY <1>2, TextPieces, AppendCache
<1>4. MetricsCacheAppend(Text(c, p)) \in CacheOf(Piece)
  BY <1>1, TextPieces, AppendCache DEF MetricsCacheAppend
<1>5. MetricsCacheFinalize \in CacheOf(Piece)
  BY <1>1, FinalizeCache DEF MetricsCacheFinalize
<1> QED
  BY <1>2, <1>3, <1>4, <1>5

\* Every step keeps the types.
LEMMA NextType == TypeOK /\ PartInRange /\ [Next]_vars => TypeOK'
<1> SUFFICES ASSUME TypeOK, PartInRange, [Next]_vars
             PROVE  TypeOK'
  OBVIOUS
<1> USE DEF TypeOK, Goto
<1>1. ASSUME NEW c \in Child, Serve(c)
      PROVE  TypeOK'
  BY <1>1 DEF Serve
<1>2. ASSUME NEW c \in Child, Lock(c)
      PROVE  TypeOK'
  BY <1>2 DEF Lock
<1>3. ASSUME NEW c \in Child, TimeOut(c)
      PROVE  TypeOK'
  BY <1>3 DEF TimeOut
<1>4. ASSUME NEW c \in Child, ServeHit(c)
      PROVE  TypeOK'
  BY <1>4 DEF ServeHit, WriteThen
<1>5. ASSUME NEW c \in Child, BuildHeader(c)
      PROVE  TypeOK'
  <2>1. 0 \in 0..LastPart
    BY LastPartAssumption
  <2>2. cache' \in CacheOf(Piece)
    BY <1>5, <2>1, CacheTypes DEF BuildHeader
  <2>3. Text(c, 0) \o Mark(c) \in Seq(Sent)
    BY <2>1, TextSent
  <2>4. built' \in [Child -> Seq(Sent)]
    BY <1>5, <2>3 DEF BuildHeader
  <2> QED
    BY <1>5, <2>2, <2>4 DEF BuildHeader
<1>6. ASSUME NEW c \in Child, WriteHeader(c)
      PROVE  TypeOK'
  BY <1>6 DEF WriteHeader, WriteThen
<1>7. ASSUME NEW c \in Child, Scrape(c)
      PROVE  TypeOK'
  <2>1. 1 \in 0..LastPart + 1
    BY LastPartAssumption
  <2>2. part' \in [Child -> 0..LastPart + 1]
    BY <1>7, <2>1 DEF Scrape
  <2>3. pc' \in [Child -> PC]
    BY <1>7 DEF Scrape
  <2>4. logging_error' \in Nat
    BY <1>7 DEF Scrape
  <2> QED
    BY <1>7, <2>2, <2>3, <2>4 DEF Scrape
<1>8. ASSUME NEW c \in Child, Output(c)
      PROVE  TypeOK'
  <2>1. part[c] \in 1..LastPart /\ part[c] \in 0..LastPart
    BY <1>8, LastPartAssumption DEF Output, PartInRange
  <2>2. cache' \in CacheOf(Piece)
    BY <1>8, <2>1, CacheTypes DEF Output
  <2>3. built[c] \o Text(c, part[c]) \in Seq(Sent)
    BY <2>1, TextSent
  <2>4. built' \in [Child -> Seq(Sent)]
    BY <1>8, <2>3 DEF Output
  <2>5. part[c] + 1 \in 0..LastPart + 1
    BY <2>1, LastPartAssumption
  <2>6. part' \in [Child -> 0..LastPart + 1]
    BY <1>8, <2>5 DEF Output
  <2> QED
    BY <1>8, <2>2, <2>4, <2>6 DEF Output
<1>9. ASSUME NEW c \in Child, Footer(c)
      PROVE  TypeOK'
  <2>1. 0 \in 0..LastPart
    BY LastPartAssumption
  <2>2. cache' \in CacheOf(Piece)
    BY <1>9, <2>1, CacheTypes DEF Footer
  <2> QED
    BY <1>9, <2>2 DEF Footer, WriteThen
<1>10. ASSUME NEW c \in Child, Unlock(c)
       PROVE  TypeOK'
  BY <1>10 DEF Unlock
<1>11. CASE MainNext
  <2>1. CASE Reset
    BY <2>1 DEF Reset
  <2>2. CASE ResetLock
    BY <2>2 DEF ResetLock
  <2>3. CASE ResetInvalidate
    BY <2>3, InvalidateCache DEF ResetInvalidate
  <2>4. CASE ResetUnlock
    BY <2>4 DEF ResetUnlock
  <2>5. CASE SigTerm
    BY <2>5 DEF SigTerm
  <2>6. CASE Shutdown
    BY <2>6 DEF Shutdown
  <2> QED
    BY <1>11, <2>1, <2>2, <2>3, <2>4, <2>5, <2>6 DEF MainNext
<1>12. CASE SetMaxAge
  BY <1>12 DEF SetMaxAge
<1>13. CASE Tick
  BY <1>13 DEF Tick
<1>14. CASE UNCHANGED vars
  BY <1>14 DEF vars
<1> QED
  BY <1>1, <1>2, <1>3, <1>4, <1>5, <1>6, <1>7, <1>8, <1>9, <1>10, <1>11, <1>12,
     <1>13, <1>14 DEF Next, ChildNext, Attempt

-----------------------------------------------------------------------------
(* The lock.                                                               *)

\* LockAccounting, child by child.
LEMMA HoldingFacts ==
    /\ \A c \in Child : c \in Holding <=> pc[c] \in Critical \cup {"leaked"}
    /\ Main \in Holding <=> MainHolds
    /\ Holding \subseteq Child \cup {Main}
BY ProcsAssumption DEF Holding

\* Every step keeps the account of the lock.
LEMMA NextLock == TypeOK /\ LockAccounting /\ [Next]_vars => LockAccounting'
<1> SUFFICES ASSUME TypeOK, LockAccounting, [Next]_vars
             PROVE  LockAccounting'
  OBVIOUS
<1> USE DEF TypeOK, Goto
\* A child that neither enters nor leaves, and a step that moves nobody.
<1>a. ASSUME NEW c \in Child, NEW where \in PC,
             pc' = [pc EXCEPT ![c] = where],
             pc[c] \in Critical \cup {"leaked"} <=> where \in Critical \cup {"leaked"},
             UNCHANGED << lock, main >>
      PROVE  LockAccounting'
  <2>1. Holding' = Holding
    BY <1>a DEF Holding, MainHolds
  <2> QED
    BY <1>a, <2>1 DEF LockAccounting
<1>b. ASSUME UNCHANGED << lock, pc >>, MainHolds' <=> MainHolds
      PROVE  LockAccounting'
  <2>1. Holding' = Holding
    BY <1>b DEF Holding
  <2> QED
    BY <1>b, <2>1 DEF LockAccounting
<1>1. ASSUME NEW c \in Child, Serve(c)
      PROVE  LockAccounting'
  BY <1>1, <1>a DEF Serve
<1>2. ASSUME NEW c \in Child, Lock(c)
      PROVE  LockAccounting'
  <2>1. Holding = {}
    BY <1>2 DEF Lock, LockAccounting
  <2>2. ~ MainHolds /\ ~ MainHolds'
    BY <1>2, <2>1, HoldingFacts DEF Lock, MainHolds
  <2>3. Holding' = {c}
    BY <1>2, <2>1, <2>2 DEF Lock, Holding
  <2> QED
    BY <1>2, <2>3 DEF Lock, LockAccounting
<1>3. ASSUME NEW c \in Child, TimeOut(c)
      PROVE  LockAccounting'
  BY <1>3, <1>a DEF TimeOut
<1>4. ASSUME NEW c \in Child, ServeHit(c)
      PROVE  LockAccounting'
  BY <1>4, <1>a DEF ServeHit, WriteThen
<1>5. ASSUME NEW c \in Child, BuildHeader(c)
      PROVE  LockAccounting'
  BY <1>5, <1>a DEF BuildHeader
<1>6. ASSUME NEW c \in Child, WriteHeader(c)
      PROVE  LockAccounting'
  BY <1>6, <1>a DEF WriteHeader, WriteThen
<1>7. ASSUME NEW c \in Child, Scrape(c)
      PROVE  LockAccounting'
  BY <1>7, <1>a DEF Scrape
<1>8. ASSUME NEW c \in Child, Output(c)
      PROVE  LockAccounting'
  BY <1>8, <1>a DEF Output
<1>9. ASSUME NEW c \in Child, Footer(c)
      PROVE  LockAccounting'
  BY <1>9, <1>a DEF Footer, WriteThen
<1>10. ASSUME NEW c \in Child, Unlock(c)
       PROVE  LockAccounting'
  <2>1. c \in Holding
    BY <1>10, HoldingFacts DEF Unlock
  <2>2. Holding = {c}
    BY <2>1 DEF LockAccounting
  <2>3. ~ MainHolds /\ ~ MainHolds'
    BY <1>10, <2>2, HoldingFacts, ProcsAssumption DEF Unlock, MainHolds
  <2>4. Holding' = {}
    BY <1>10, <2>2, <2>3 DEF Unlock, Holding
  <2> QED
    BY <1>10, <2>4 DEF Unlock, LockAccounting
<1>11. CASE MainNext
  <2>1. CASE Reset
    BY <2>1, <1>b DEF Reset, MainHolds
  <2>2. CASE ResetLock
    <3>1. Holding = {}
      BY <2>2 DEF ResetLock, LockAccounting
    <3>2. Holding' = {Main}
      BY <2>2, <3>1 DEF ResetLock, Holding, MainHolds
    <3> QED
      BY <2>2, <3>2 DEF ResetLock, LockAccounting
  <2>3. CASE ResetInvalidate
    BY <2>3, <1>b DEF ResetInvalidate, MainHolds
  <2>4. CASE ResetUnlock
    <3>1. Main \in Holding
      BY <2>4, HoldingFacts DEF ResetUnlock, MainHolds
    <3>2. Holding = {Main}
      BY <3>1 DEF LockAccounting
    <3>3. Holding' = {}
      BY <2>4, <3>2, ProcsAssumption DEF ResetUnlock, Holding, MainHolds
    <3> QED
      BY <2>4, <3>3 DEF ResetUnlock, LockAccounting
  <2>5. CASE SigTerm
    BY <2>5, <1>b DEF SigTerm, MainHolds
  <2>6. CASE Shutdown
    BY <2>6, <1>b DEF Shutdown, MainHolds
  <2> QED
    BY <1>11, <2>1, <2>2, <2>3, <2>4, <2>5, <2>6 DEF MainNext
<1>12. CASE SetMaxAge
  BY <1>12, <1>b DEF SetMaxAge, MainHolds
<1>13. CASE Tick
  BY <1>13, <1>b DEF Tick, MainHolds
<1>14. CASE UNCHANGED vars
  BY <1>14, <1>b DEF vars, MainHolds
<1> QED
  BY <1>1, <1>2, <1>3, <1>4, <1>5, <1>6, <1>7, <1>8, <1>9, <1>10, <1>11, <1>12,
     <1>13, <1>14 DEF Next, ChildNext, Attempt

-----------------------------------------------------------------------------
(* The content of the cache.                                               *)

\* Only one child is in the branch that holds the lock, and not while the
\* main process is.
LEMMA OnlyHolder ==
    ASSUME LockAccounting, NEW c \in Child, pc[c] \in Critical
    PROVE  /\ \A d \in Child \ {c} : pc[d] \notin Critical \cup {"leaked"}
           /\ ~ MainHolds
<1>1. c \in Holding
  BY HoldingFacts
<1> QED
  BY <1>1, HoldingFacts, ProcsAssumption DEF LockAccounting

\* No child is in the branch that holds the lock while the main process is.
LEMMA MainAlone ==
    ASSUME LockAccounting, MainHolds
    PROVE  \A d \in Child : pc[d] \notin Critical \cup {"leaked"}
<1>1. Main \in Holding
  BY HoldingFacts
<1> QED
  BY <1>1, HoldingFacts, ProcsAssumption DEF LockAccounting

\* The parts of the invariant about the children alone.
LEMMA NextLocal ==
    TypeOK /\ NothingBuiltYet /\ PartInRange /\ [Next]_vars
        => NothingBuiltYet' /\ PartInRange'
<1> SUFFICES ASSUME TypeOK, NothingBuiltYet, PartInRange, [Next]_vars
             PROVE  NothingBuiltYet' /\ PartInRange'
  OBVIOUS
<1> USE DEF TypeOK, Goto, NothingBuiltYet, PartInRange
<1>1. ASSUME NEW c \in Child, ChildNext(c)
      PROVE  NothingBuiltYet' /\ PartInRange'
  <2>1. CASE Serve(c)
    BY <2>1 DEF Serve
  <2>2. CASE Lock(c)
    BY <2>2 DEF Lock
  <2>3. CASE TimeOut(c)
    BY <2>3 DEF TimeOut
  <2>4. CASE ServeHit(c)
    BY <2>4 DEF ServeHit, WriteThen
  <2>5. CASE BuildHeader(c)
    BY <2>5 DEF BuildHeader
  <2>6. CASE WriteHeader(c)
    BY <2>6 DEF WriteHeader, WriteThen
  <2>7. CASE Scrape(c)
    <3>1. NothingBuiltYet'
      BY <2>7 DEF Scrape
    <3>2. 1 \in 1..LastPart
      BY LastPartAssumption
    <3>3. PartInRange'
      BY <2>7, <3>2 DEF Scrape
    <3> QED
      BY <3>1, <3>3
  <2>8. CASE Output(c)
    <3>1. NothingBuiltYet'
      BY <2>8 DEF Output
    <3>2. ASSUME NEW d \in Child, pc'[d] = "output"
          PROVE  part'[d] \in 1..LastPart
      <4>1. CASE d = c
        BY <2>8, <3>2, <4>1, LastPartAssumption DEF Output
      <4>2. CASE d # c
        BY <2>8, <3>2, <4>2 DEF Output
      <4> QED
        BY <4>1, <4>2
    <3> QED
      BY <3>1, <3>2
  <2>9. CASE Footer(c)
    BY <2>9 DEF Footer, WriteThen
  <2>10. CASE Unlock(c)
    BY <2>10 DEF Unlock
  <2> QED
    BY <1>1, <2>1, <2>2, <2>3, <2>4, <2>5, <2>6, <2>7, <2>8, <2>9, <2>10
       DEF ChildNext, Attempt
<1>2. CASE MainNext \/ SetMaxAge \/ Tick \/ UNCHANGED vars
  BY <1>2 DEF MainNext, Reset, ResetLock, ResetInvalidate, ResetUnlock, SigTerm,
              Shutdown, SetMaxAge, Tick, vars
<1> QED
  BY <1>1, <1>2 DEF Next

\* The cache keeps within its buffer.
LEMMA NextSize == TypeOK /\ PartInRange /\ WithinSize /\ [Next]_vars => WithinSize'
<1> SUFFICES ASSUME TypeOK, PartInRange, WithinSize, [Next]_vars
             PROVE  WithinSize'
  OBVIOUS
<1> USE DEF TypeOK, WithinSize
<1>1. CASE cache' = cache
  BY <1>1
<1>2. CASE cache' = CacheInvalidate(cache)
  BY <1>2, InvalidateCache DEF Fits
<1>3. ASSUME NEW c \in Child, NEW p \in 0..LastPart,
             \/ cache' = CacheAppend(CacheInvalidate(cache), Text(c, p))
             \/ cache' = CacheAppend(cache, Text(c, p))
      PROVE  WithinSize'
  <2>1. CacheInvalidate(cache) \in CacheOf(Piece) /\ Fits(CacheInvalidate(cache))
    BY InvalidateCache DEF Fits
  <2>2. Text(c, p) \in Seq(Piece)
    BY TextPieces
  <2>3. Fits(CacheAppend(CacheInvalidate(cache), Text(c, p)))
    BY <2>1, <2>2, AppendCache
  <2>4. Fits(CacheAppend(cache, Text(c, p)))
    BY <2>2, AppendCache
  <2> QED
    BY <1>3, <2>3, <2>4
<1>4. CASE cache' = CacheFinalize(cache, max_age, now)
  BY <1>4, FinalizeCache, MaxAgesAssumption DEF Fits
<1>5. ASSUME NEW c \in Child, BuildHeader(c)
      PROVE  WithinSize'
  BY <1>2, <1>3, <1>5, LastPartAssumption DEF BuildHeader
<1>6. ASSUME NEW c \in Child, Output(c)
      PROVE  WithinSize'
  <2>1. part[c] \in 0..LastPart
    BY <1>6, LastPartAssumption DEF Output, PartInRange
  <2> QED
    BY <1>1, <1>3, <1>6, <2>1 DEF Output, MetricsCacheAppend
<1>7. ASSUME NEW c \in Child, Footer(c)
      PROVE  WithinSize'
  BY <1>1, <1>4, <1>7 DEF Footer, MetricsCacheFinalize
<1>8. CASE ResetInvalidate
  BY <1>2, <1>8 DEF ResetInvalidate
<1>9. ASSUME NEW c \in Child,
             \/ Serve(c) \/ Attempt(c) \/ ServeHit(c) \/ WriteHeader(c) \/ Scrape(c)
             \/ Unlock(c)
      PROVE  WithinSize'
  BY <1>1, <1>9 DEF Serve, Attempt, Lock, TimeOut, ServeHit, WriteHeader, Scrape, Unlock
<1>10. CASE \/ Reset \/ ResetLock \/ ResetUnlock \/ SigTerm \/ Shutdown
            \/ SetMaxAge \/ Tick \/ UNCHANGED vars
  BY <1>1, <1>10 DEF Reset, ResetLock, ResetUnlock, SigTerm, Shutdown, SetMaxAge,
                     Tick, vars
<1> QED
  BY <1>5, <1>6, <1>7, <1>8, <1>9, <1>10 DEF Next, ChildNext, MainNext

\* A response under construction stays invalid.
LEMMA NextUnfinished ==
    TypeOK /\ LockAccounting /\ NothingBuiltYet /\ UnfinishedNotValid /\ PartInRange
        /\ [Next]_vars => UnfinishedNotValid'
<1> SUFFICES ASSUME TypeOK, LockAccounting, NothingBuiltYet, UnfinishedNotValid,
                    PartInRange, [Next]_vars
             PROVE  UnfinishedNotValid'
  OBVIOUS
<1> USE DEF TypeOK, Goto
<1>a. ASSUME UNCHANGED cache, \A d \in Child : Building(d)' => Building(d)
      PROVE  UnfinishedNotValid'
  BY <1>a DEF UnfinishedNotValid
<1>b. ASSUME cache'.valid_until = 0
      PROVE  UnfinishedNotValid'
  BY <1>b DEF UnfinishedNotValid
<1>1. ASSUME NEW c \in Child,
             Serve(c) \/ Attempt(c) \/ ServeHit(c) \/ WriteHeader(c) \/ Scrape(c) \/ Unlock(c)
      PROVE  UnfinishedNotValid'
  <2>1. UNCHANGED << cache, built >>
    BY <1>1 DEF Serve, Attempt, Lock, TimeOut, ServeHit, WriteHeader, Scrape, Unlock
  <2>2. ASSUME NEW d \in Child, Building(d)'
        PROVE  Building(d)
    BY <1>1, <2>1, <2>2 DEF Serve, Attempt, Lock, TimeOut, ServeHit, WriteThen,
       WriteHeader, Scrape, Unlock, Building, NothingBuiltYet
  <2> QED
    BY <1>a, <2>1, <2>2
<1>2. ASSUME NEW c \in Child, BuildHeader(c)
      PROVE  UnfinishedNotValid'
  <2>1. 0 \in 0..LastPart
    BY LastPartAssumption
  <2>2. CacheInvalidate(cache) \in CacheOf(Piece) /\ CacheInvalidate(cache).valid_until = 0
    BY InvalidateCache
  <2>3. CacheAppend(CacheInvalidate(cache), Text(c, 0)).valid_until = 0
    BY <2>1, <2>2, AppendCache, TextPieces
  <2> QED
    BY <1>2, <1>b, <2>2, <2>3 DEF BuildHeader
<1>3. ASSUME NEW c \in Child, Output(c)
      PROVE  UnfinishedNotValid'
  <2>1. part[c] \in 0..LastPart
    BY <1>3, LastPartAssumption DEF Output, PartInRange
  <2>2. cache.valid_until = 0
    BY <1>3 DEF Output, UnfinishedNotValid, Building
  <2>3. CacheAppend(cache, Text(c, part[c])).valid_until = 0
    BY <2>1, <2>2, AppendCache, TextPieces
  <2> QED
    BY <1>3, <1>b, <2>2, <2>3 DEF Output, MetricsCacheAppend
<1>4. ASSUME NEW c \in Child, Footer(c)
      PROVE  UnfinishedNotValid'
  <2>1. CASE pc'[c] = "unlock"
    <3>1. \A d \in Child \ {c} : pc[d] \notin Critical \cup {"leaked"}
      BY <1>4, OnlyHolder DEF Footer
    <3>2. \A d \in Child : ~ Building(d)'
      BY <1>4, <2>1, <3>1 DEF Footer, WriteThen, Building
    <3> QED
      BY <3>2 DEF UnfinishedNotValid
  <2>2. CASE pc'[c] # "unlock"
    <3>1. cache.valid_until = 0
      BY <1>4 DEF Footer, UnfinishedNotValid, Building
    <3> QED
      BY <1>4, <1>b, <2>2, <3>1 DEF Footer
  <2> QED
    BY <2>1, <2>2
<1>5. CASE ResetInvalidate
  BY <1>5, <1>b, InvalidateCache DEF ResetInvalidate
<1>6. CASE \/ Reset \/ ResetLock \/ ResetUnlock \/ SigTerm \/ Shutdown
           \/ SetMaxAge \/ Tick \/ UNCHANGED vars
  BY <1>6, <1>a DEF Reset, ResetLock, ResetUnlock, SigTerm, Shutdown, SetMaxAge,
                    Tick, vars, Building
<1> QED
  BY <1>1, <1>2, <1>3, <1>4, <1>5, <1>6 DEF Next, ChildNext, MainNext

\* After an append to a cache, every piece is an old one or is [c, p].
LEMMA AppendedPieces ==
    ASSUME NEW ch \in CacheOf(Piece), NEW c \in Child, NEW p \in 0..LastPart,
           NEW i \in 1..Len(CacheAppend(ch, Text(c, p)).data)
    PROVE  \/ /\ i \in 1..Len(ch.data)
              /\ CacheAppend(ch, Text(c, p)).data[i] = ch.data[i]
           \/ /\ i > Len(ch.data)
              /\ CacheAppend(ch, Text(c, p)).data[i] = [by |-> c, part |-> p]
<1>1. Text(c, p) \in Seq(Piece)
  BY TextPieces
<1>2. CASE i \in 1..Len(ch.data) /\ CacheAppend(ch, Text(c, p)).data[i] = ch.data[i]
  BY <1>2
<1>3. ASSUME i > Len(ch.data),
             NEW k \in 1..Len(Text(c, p)), CacheAppend(ch, Text(c, p)).data[i] = Text(c, p)[k]
      PROVE  CacheAppend(ch, Text(c, p)).data[i] = [by |-> c, part |-> p]
  BY <1>3, TextPieces
<1> QED
  BY <1>1, <1>2, <1>3, AppendPieces

\* What is in a cache is a piece.
LEMMA PieceInCache ==
    ASSUME NEW ch \in CacheOf(Piece), NEW i \in 1..Len(ch.data)
    PROVE  ch.data[i] \in Piece /\ ch.data[i].part \in Nat
<1>1. ch.data \in Seq(Piece)
  BY DEF CacheOf
<1>2. ch.data[i] \in Piece
  BY <1>1
<1> QED
  BY <1>2, LastPartAssumption DEF Piece

\* What the cache holds after the header was appended to the emptied cache.
LEMMA HeaderPieces ==
    ASSUME TypeOK, NEW c \in Child, BuildHeader(c), NEW i \in 1..Len(cache'.data)
    PROVE  /\ cache'.data[i] = [by |-> c, part |-> 0]
           /\ cache'.data[i].by = c /\ cache'.data[i].part = 0
<1>1. 0 \in 0..LastPart
  BY LastPartAssumption
<1>2. CacheInvalidate(cache) \in CacheOf(Piece) /\ CacheInvalidate(cache).data = << >>
  BY InvalidateCache DEF TypeOK
<1>3. CASE cache' = CacheInvalidate(cache)
  BY <1>2, <1>3
<1>4. CASE cache' = CacheAppend(CacheInvalidate(cache), Text(c, 0))
  BY <1>1, <1>2, <1>4, AppendedPieces
<1> QED
  BY <1>3, <1>4 DEF BuildHeader

\* What the cache holds after one more part of the body.
LEMMA OutputPieces ==
    ASSUME TypeOK, PartInRange, BuilderOwnsData, NEW c \in Child, Output(c),
           NEW i \in 1..Len(cache'.data)
    PROVE  /\ cache'.data[i].by = c
           /\ \/ /\ i \in 1..Len(cache.data)
                 /\ cache'.data[i] = cache.data[i]
                 /\ cache'.data[i].part < part[c]
              \/ /\ i > Len(cache.data)
                 /\ cache'.data[i].part = part[c]
                 /\ part'[c] = part[c] + 1
<1>1. pc[c] = "output" /\ part[c] \in 0..LastPart /\ cache \in CacheOf(Piece)
  BY LastPartAssumption DEF Output, PartInRange, TypeOK
<1>2. \A j \in 1..Len(cache.data) : cache.data[j].by = c /\ cache.data[j].part < part[c]
  BY <1>1 DEF BuilderOwnsData
<1>3. CASE cache' = cache
  BY <1>2, <1>3
<1>4. CASE cache' = CacheAppend(cache, Text(c, part[c])) /\ part' = [part EXCEPT ![c] = @ + 1]
  <2>1. part'[c] = part[c] + 1
    BY <1>4 DEF TypeOK
  <2>2. CASE i \in 1..Len(cache.data) /\ cache'.data[i] = cache.data[i]
    BY <1>2, <2>2
  <2>3. CASE i > Len(cache.data) /\ cache'.data[i] = [by |-> c, part |-> part[c]]
    BY <2>1, <2>3
  <2> QED
    BY <1>1, <1>4, <2>2, <2>3, AppendedPieces
<1> QED
  BY <1>3, <1>4 DEF Output, MetricsCacheAppend

\* The cache belongs to the child that builds its response.
LEMMA NextBuilder ==
    TypeOK /\ LockAccounting /\ PartInRange /\ BuilderOwnsData /\ [Next]_vars
        => BuilderOwnsData'
<1> SUFFICES ASSUME TypeOK, LockAccounting, PartInRange, BuilderOwnsData, [Next]_vars
             PROVE  BuilderOwnsData'
  OBVIOUS
<1> USE DEF TypeOK, Goto
<1>a. ASSUME UNCHANGED << cache, part >>,
             \A d \in Child : /\ pc'[d] \in {"header", "scrape"} => pc[d] \in {"header", "scrape"}
                              /\ pc'[d] = "output" => pc[d] = "output"
      PROVE  BuilderOwnsData'
  <2> SUFFICES ASSUME NEW d \in Child, NEW i \in 1..Len(cache.data)
               PROVE  /\ pc'[d] \in {"header", "scrape", "output"} => cache.data[i].by = d
                      /\ pc'[d] \in {"header", "scrape"} => cache.data[i].part = 0
                      /\ pc'[d] = "output" => cache.data[i].part < part[d]
    BY <1>a DEF BuilderOwnsData
  <2>1. /\ pc'[d] \in {"header", "scrape"} => pc[d] \in {"header", "scrape"}
        /\ pc'[d] = "output" => pc[d] = "output"
    BY <1>a
  <2>2. /\ pc[d] \in {"header", "scrape", "output"} => cache.data[i].by = d
        /\ pc[d] \in {"header", "scrape"} => cache.data[i].part = 0
        /\ pc[d] = "output" => cache.data[i].part < part[d]
    BY DEF BuilderOwnsData
  <2> QED
    BY <2>1, <2>2
<1>b. ASSUME cache'.data = << >>
      PROVE  BuilderOwnsData'
  BY <1>b DEF BuilderOwnsData
<1>1. ASSUME NEW c \in Child,
             Serve(c) \/ Attempt(c) \/ ServeHit(c) \/ WriteHeader(c) \/ Unlock(c)
      PROVE  BuilderOwnsData'
  BY <1>1, <1>a DEF Serve, Attempt, Lock, TimeOut, ServeHit, WriteThen, WriteHeader, Unlock
<1>2. ASSUME NEW c \in Child, BuildHeader(c)
      PROVE  BuilderOwnsData'
  <2>1. \A d \in Child \ {c} : pc[d] \notin Critical
    BY <1>2, OnlyHolder DEF BuildHeader
  <2>2. \A d \in Child : d # c => pc'[d] \notin {"header", "scrape", "output"}
    BY <1>2, <2>1 DEF BuildHeader
  <2>3. pc'[c] = "header"
    BY <1>2 DEF BuildHeader
  <2>4. \A i \in 1..Len(cache'.data) : cache'.data[i].by = c /\ cache'.data[i].part = 0
    BY <1>2, HeaderPieces
  <2> QED
    BY <2>2, <2>3, <2>4 DEF BuilderOwnsData
<1>3. ASSUME NEW c \in Child, Scrape(c)
      PROVE  BuilderOwnsData'
  <2>1. CASE pc'[c] = "leaked"
    BY <1>3, <2>1, <1>a DEF Scrape
  <2>2. CASE pc'[c] # "leaked"
    <3>1. /\ pc' = [pc EXCEPT ![c] = "output"]
          /\ part' = [part EXCEPT ![c] = 1]
          /\ cache' = cache
      BY <1>3, <2>2 DEF Scrape
    <3>2. \A i \in 1..Len(cache.data) : cache.data[i].by = c /\ cache.data[i].part = 0
      BY <1>3 DEF Scrape, BuilderOwnsData
    <3> QED
      BY <3>1, <3>2 DEF BuilderOwnsData
  <2> QED
    BY <2>1, <2>2
<1>4. ASSUME NEW c \in Child, Output(c)
      PROVE  BuilderOwnsData'
  <2>1. \A d \in Child \ {c} : pc[d] \notin Critical
    BY <1>4, OnlyHolder DEF Output
  <2>2. \A d \in Child : d # c => pc'[d] \notin {"header", "scrape", "output"}
    BY <1>4, <2>1 DEF Output
  <2>3. pc'[c] \in {"output", "footer", "leaked"}
    BY <1>4 DEF Output
  <2>4. pc'[c] = "output" => part'[c] = part[c] + 1 /\ part[c] \in Nat
    BY <1>4, LastPartAssumption DEF Output, PartInRange
  <2>5. ASSUME NEW i \in 1..Len(cache'.data), pc'[c] = "output"
        PROVE  cache'.data[i].by = c /\ cache'.data[i].part < part'[c]
    <3>1. cache' \in CacheOf(Piece)
      BY NextType
    <3>2. cache'.data[i].part \in Nat
      BY <3>1, PieceInCache
    <3>3. /\ cache'.data[i].by = c
          /\ cache'.data[i].part < part[c] \/ cache'.data[i].part = part[c]
      BY <1>4, OutputPieces
    <3> QED
      BY <2>4, <2>5, <3>2, <3>3
  <2> QED
    BY <2>2, <2>3, <2>5 DEF BuilderOwnsData
<1>5. ASSUME NEW c \in Child, Footer(c)
      PROVE  BuilderOwnsData'
  <2>1. \A d \in Child \ {c} : pc[d] \notin Critical
    BY <1>5, OnlyHolder DEF Footer
  <2>2. \A d \in Child : pc'[d] \notin {"header", "scrape", "output"}
    BY <1>5, <2>1 DEF Footer, WriteThen
  <2> QED
    BY <2>2 DEF BuilderOwnsData
<1>6. CASE ResetInvalidate
  BY <1>6, <1>b, InvalidateCache DEF ResetInvalidate
<1>7. CASE \/ Reset \/ ResetLock \/ ResetUnlock \/ SigTerm \/ Shutdown
           \/ SetMaxAge \/ Tick \/ UNCHANGED vars
  BY <1>7, <1>a DEF Reset, ResetLock, ResetUnlock, SigTerm, Shutdown, SetMaxAge,
                    Tick, vars
<1> QED
  BY <1>1, <1>2, <1>3, <1>4, <1>5, <1>6, <1>7 DEF Next, ChildNext, MainNext

\* The cache holds the output of one scrape, in order.
LEMMA NextOneScrape ==
    TypeOK /\ PartInRange /\ BuilderOwnsData /\ OneScrape /\ [Next]_vars => OneScrape'
<1> SUFFICES ASSUME TypeOK, PartInRange, BuilderOwnsData, OneScrape, [Next]_vars
             PROVE  OneScrape'
  OBVIOUS
<1> USE DEF TypeOK
<1>a. ASSUME cache'.data = cache.data \/ cache'.data = << >>
      PROVE  OneScrape'
  BY <1>a DEF OneScrape
<1>1. ASSUME NEW c \in Child, BuildHeader(c)
      PROVE  OneScrape'
  <2>1. \A i \in 1..Len(cache'.data) : cache'.data[i] = [by |-> c, part |-> 0]
    BY <1>1, HeaderPieces
  <2> QED
    BY <2>1 DEF OneScrape
<1>2. ASSUME NEW c \in Child, Output(c)
      PROVE  OneScrape'
  <2>1. cache' \in CacheOf(Piece) /\ cache \in CacheOf(Piece) /\ part[c] \in Nat
    BY <1>2, NextType, LastPartAssumption DEF Output, PartInRange
  <2> SUFFICES ASSUME NEW i \in 1..Len(cache'.data), NEW j \in 1..Len(cache'.data), i < j
               PROVE  /\ cache'.data[i].by = cache'.data[j].by
                      /\ cache'.data[i].part <= cache'.data[j].part
    BY DEF OneScrape
  <2>2. cache'.data[i].part \in Nat /\ cache'.data[j].part \in Nat /\ Len(cache.data) \in Nat
    <3>1. cache'.data[i].part \in Nat /\ cache'.data[j].part \in Nat
      BY <2>1, PieceInCache
    <3>2. Len(cache.data) \in Nat
      BY <2>1 DEF CacheOf
    <3> QED
      BY <3>1, <3>2
  <2>3. cache'.data[i].by = c /\ cache'.data[j].by = c
    BY <1>2, OutputPieces
  <2>4. CASE j \in 1..Len(cache.data)
    <3>1. i \in 1..Len(cache.data)
      BY <2>2, <2>4
    <3>2. cache'.data[i] = cache.data[i] /\ cache'.data[j] = cache.data[j]
      BY <1>2, <2>2, <2>4, <3>1, OutputPieces
    <3> QED
      BY <2>3, <2>4, <3>1, <3>2 DEF OneScrape
  <2>5. CASE j \notin 1..Len(cache.data)
    <3>1. cache'.data[j].part = part[c]
      BY <1>2, <2>5, OutputPieces
    <3>2. cache'.data[i].part < part[c] \/ cache'.data[i].part = part[c]
      BY <1>2, OutputPieces
    <3> QED
      BY <2>1, <2>2, <2>3, <3>1, <3>2
  <2> QED
    BY <2>4, <2>5
<1>3. ASSUME NEW c \in Child, Footer(c)
      PROVE  OneScrape'
  <2>1. cache'.data = cache.data
    BY <1>3, FinalizeCache, MaxAgesAssumption DEF Footer, MetricsCacheFinalize
  <2> QED
    BY <1>a, <2>1
<1>4. CASE ResetInvalidate
  BY <1>4, <1>a, InvalidateCache DEF ResetInvalidate
<1>5. ASSUME NEW c \in Child,
             \/ Serve(c) \/ Attempt(c) \/ ServeHit(c) \/ WriteHeader(c) \/ Scrape(c)
             \/ Unlock(c)
      PROVE  OneScrape'
  BY <1>5, <1>a DEF Serve, Attempt, Lock, TimeOut, ServeHit, WriteHeader, Scrape, Unlock
<1>6. CASE \/ Reset \/ ResetLock \/ ResetUnlock \/ SigTerm \/ Shutdown
           \/ SetMaxAge \/ Tick \/ UNCHANGED vars
  BY <1>6, <1>a DEF Reset, ResetLock, ResetUnlock, SigTerm, Shutdown, SetMaxAge,
                    Tick, vars
<1> QED
  BY <1>1, <1>2, <1>3, <1>4, <1>5, <1>6 DEF Next, ChildNext, MainNext

-----------------------------------------------------------------------------
(* The theorems.                                                           *)

\* The daemon starts in a state of the invariant.
LEMMA InitInv == Init => IInv
<1> SUFFICES ASSUME Init PROVE IInv
  OBVIOUS
<1>1. TypeOK
  BY InitType
<1>2. cache.data = << >> /\ WithinSize
  BY InitCache, SizeToAllocType DEF Init, CacheInit, WithinSize
<1>3. Holding = {}
  BY DEF Init, Holding, MainHolds
<1>4. LockAccounting
  BY <1>3 DEF Init, LockAccounting
<1>5. NothingBuiltYet /\ PartInRange
  BY DEF Init, NothingBuiltYet, PartInRange
<1>6. BuilderOwnsData /\ OneScrape
  BY <1>2 DEF BuilderOwnsData, OneScrape
<1>7. UnfinishedNotValid
  BY DEF Init, UnfinishedNotValid, Building
<1> QED
  BY <1>1, <1>2, <1>4, <1>5, <1>6, <1>7 DEF IInv

\* Every step keeps the invariant.
LEMMA NextInv == IInv /\ [Next]_vars => IInv'
BY NextType, NextLock, NextSize, NextLocal, NextUnfinished, NextBuilder, NextOneScrape
   DEF IInv

\* The invariant holds in every behaviour of the endpoint.
THEOREM Invariance == Spec => []IInv
BY InitInv, NextInv, PTL DEF Spec

\* Type correctness of the /metrics endpoint.
THEOREM TypeCorrect == Spec => []TypeOK
<1>1. IInv => TypeOK
  BY DEF IInv
<1> QED
  BY <1>1, Invariance, PTL

\* Mutual exclusion on the cache's lock, and the exact account of who has it,
\* for metrics_page and pgexporter_prometheus_reset, crashes included.
THEOREM LockIsAccounted == Spec => []LockAccounting
<1>1. IInv => LockAccounting
  BY DEF IInv
<1> QED
  BY <1>1, Invariance, PTL

\* The cache never mixes the output of two scrapes.
THEOREM CacheFromOneScrape == Spec => []OneScrape
<1>1. IInv => OneScrape
  BY DEF IInv
<1> QED
  BY <1>1, Invariance, PTL

\* A response whose builder has not finished, or never will, is never valid.
THEOREM UnfinishedIsNotValid == Spec => []UnfinishedNotValid
<1>1. IInv => UnfinishedNotValid
  BY DEF IInv
<1> QED
  BY <1>1, Invariance, PTL

\* No sequence of appends overflows the buffer of the cache.
THEOREM CacheWithinSize == Spec => []WithinSize
<1>1. IInv => WithinSize
  BY DEF IInv
<1> QED
  BY <1>1, Invariance, PTL

-----------------------------------------------------------------------------
(* Refinement.                                                             *)

\* The owner of the abstract lock, seen from the program counters.
OwnerIs ==
    /\ lock = "free" => Owner = NoProc
    /\ \A c \in Child : pc[c] \in Critical \cup {"leaked"} => Owner = c
    /\ MainHolds => Owner = Main

\* The account of the lock determines the owner.
LEMMA OwnerFacts == LockAccounting => OwnerIs
<1> SUFFICES ASSUME LockAccounting PROVE OwnerIs
  OBVIOUS
<1>1. ASSUME NEW p \in Holding
      PROVE  Owner = p
  <2>1. Holding = {p}
    BY <1>1 DEF LockAccounting
  <2> QED
    BY <2>1 DEF Owner
<1>2. lock = "free" => Owner = NoProc
  BY DEF LockAccounting, Owner
<1> QED
  BY <1>1, <1>2, HoldingFacts DEF OwnerIs

\* The owner depends on the program counters only.
LEMMA SameOwner ==
    ASSUME Holding' = Holding
    PROVE  Owner' = Owner
BY DEF Owner

\* The /metrics endpoint implements GuardedCache: only the live process that
\* holds the lock ever changes the cache.
THEOREM RefinesGuardedCache == Spec => ImplementsGuardedCache
<1>1. Init => Guarded!Init
  <2> SUFFICES ASSUME Init PROVE Guarded!Init
    OBVIOUS
  <2>1. LockAccounting /\ TypeOK
    BY InitInv DEF IInv
  <2>2. Owner = NoProc
    BY <2>1, OwnerFacts DEF Init, OwnerIs
  <2>3. {c \in Child : pc[c] = "leaked"} = {}
    BY DEF Init
  <2> QED
    BY <2>1, <2>2, <2>3 DEF Guarded!Init, TypeOK
<1>0. LockAccounting' => OwnerIs'
  BY OwnerFacts, PTL
<1>2. IInv /\ IInv' /\ [Next]_vars => [Guarded!Next]_Guarded!vars
  <2> SUFFICES ASSUME IInv, IInv', [Next]_vars
               PROVE  [Guarded!Next]_Guarded!vars
    OBVIOUS
  <2>0. TypeOK /\ TypeOK' /\ OwnerIs /\ OwnerIs'
    BY <1>0, OwnerFacts DEF IInv
  <2> DEFINE Gone == {c \in Child : pc[c] = "leaked"}
  <2> USE DEF Goto
  \* A step that changes neither the owner, nor the processes, nor the cache.
  <2>s. ASSUME Owner' = Owner, Gone' = Gone, cache' = cache
        PROVE  [Guarded!Next]_Guarded!vars
    BY <2>s DEF Guarded!vars
  \* A step of a child inside the branch that holds the lock.
  <2>u. ASSUME NEW c \in Child, pc[c] \in Critical, pc' = [pc EXCEPT ![c] = pc'[c]],
               pc'[c] \in Critical
        PROVE  [Guarded!Next]_Guarded!vars
    <3>1. Owner = c /\ Owner' = c
      BY <2>0, <2>u DEF OwnerIs
    <3>2. Gone' = Gone /\ c \notin Gone
      BY <2>0, <2>u DEF TypeOK
    <3>3. Guarded!Update(c)
      BY <2>0, <3>1, <3>2 DEF Guarded!Update, TypeOK
    <3> QED
      BY <3>3 DEF Guarded!Next
  \* A child that ends in that branch, without another change of the cache.
  <2>e. ASSUME NEW c \in Child, pc[c] \in Critical, pc' = [pc EXCEPT ![c] = "leaked"],
               cache' = cache
        PROVE  [Guarded!Next]_Guarded!vars
    <3>1. Owner = c /\ Owner' = c
      BY <2>0, <2>e DEF TypeOK, OwnerIs
    <3>2. Gone' = Gone \cup {c}
      BY <2>0, <2>e DEF TypeOK
    <3>3. Guarded!End(c)
      BY <2>e, <3>1, <3>2 DEF Guarded!End
    <3> QED
      BY <3>3 DEF Guarded!Next
  <2>1. ASSUME NEW c \in Child, Serve(c) \/ TimeOut(c)
        PROVE  [Guarded!Next]_Guarded!vars
    <3>1. Holding' = Holding /\ Gone' = Gone /\ cache' = cache
      BY <2>0, <2>1 DEF Serve, TimeOut, TypeOK, Holding, MainHolds
    <3> QED
      BY <2>s, <3>1, SameOwner
  <2>2. ASSUME NEW c \in Child, Lock(c)
        PROVE  [Guarded!Next]_Guarded!vars
    <3>1. Owner = NoProc
      BY <2>0, <2>2 DEF OwnerIs, Lock
    <3>2. pc'[c] \in Critical /\ Gone' = Gone /\ c \notin Gone /\ cache' = cache
      BY <2>0, <2>2 DEF Lock, TypeOK
    <3>3. Owner' = c
      BY <2>0, <3>2 DEF OwnerIs
    <3>4. Guarded!Acquire(c)
      BY <3>1, <3>2, <3>3 DEF Guarded!Acquire
    <3> QED
      BY <3>4 DEF Guarded!Next
  <2>3. ASSUME NEW c \in Child,
               ServeHit(c) \/ WriteHeader(c) \/ Scrape(c) \/ Output(c) \/ Footer(c)
        PROVE  [Guarded!Next]_Guarded!vars
    <3>1. /\ pc[c] \in Critical
          /\ \/ pc' = [pc EXCEPT ![c] = "leaked"] /\ cache' = cache
             \/ pc' = [pc EXCEPT ![c] = pc'[c]] /\ pc'[c] \in Critical
      BY <2>0, <2>3 DEF ServeHit, WriteHeader, Scrape, Output, Footer, WriteThen, TypeOK
    <3> QED
      BY <2>e, <2>u, <3>1
  <2>4. ASSUME NEW c \in Child, BuildHeader(c)
        PROVE  [Guarded!Next]_Guarded!vars
    <3>1. /\ pc[c] \in Critical /\ pc'[c] \in Critical
          /\ pc' = [pc EXCEPT ![c] = pc'[c]]
      BY <2>0, <2>4 DEF BuildHeader, TypeOK
    <3> QED
      BY <2>u, <3>1
  <2>5. ASSUME NEW c \in Child, Unlock(c)
        PROVE  [Guarded!Next]_Guarded!vars
    <3>1. Owner = c
      BY <2>0, <2>5 DEF OwnerIs, Unlock
    <3>2. Owner' = NoProc
      BY <2>0, <2>5 DEF OwnerIs, Unlock
    <3>3. Gone' = Gone /\ c \notin Gone /\ cache' = cache
      BY <2>0, <2>5 DEF Unlock, TypeOK
    <3>4. Guarded!Release(c)
      BY <3>1, <3>2, <3>3 DEF Guarded!Release
    <3> QED
      BY <3>4 DEF Guarded!Next
  <2>6. CASE Reset \/ SigTerm \/ Shutdown \/ SetMaxAge \/ Tick \/ UNCHANGED vars
    <3>1. Holding' = Holding /\ Gone' = Gone /\ cache' = cache
      BY <2>6 DEF Reset, SigTerm, Shutdown, SetMaxAge, Tick, vars, Holding, MainHolds
    <3> QED
      BY <2>s, <3>1, SameOwner
  <2>7. CASE ResetLock
    <3>1. Owner = NoProc /\ Owner' = Main
      BY <2>0, <2>7 DEF OwnerIs, ResetLock, MainHolds
    <3>2. Gone' = Gone /\ Main \notin Gone /\ cache' = cache
      BY <2>7, ProcsAssumption DEF ResetLock
    <3>3. Guarded!Acquire(Main)
      BY <3>1, <3>2 DEF Guarded!Acquire
    <3> QED
      BY <3>3 DEF Guarded!Next
  <2>8. CASE ResetInvalidate
    <3>1. Owner = Main /\ Owner' = Main
      BY <2>0, <2>8 DEF OwnerIs, ResetInvalidate, MainHolds
    <3>2. Gone' = Gone /\ Main \notin Gone
      BY <2>8, ProcsAssumption DEF ResetInvalidate
    <3>3. Guarded!Update(Main)
      BY <2>0, <3>1, <3>2 DEF Guarded!Update, TypeOK
    <3> QED
      BY <3>3 DEF Guarded!Next
  <2>9. CASE ResetUnlock
    <3>1. Owner = Main /\ Owner' = NoProc
      BY <2>0, <2>9 DEF OwnerIs, ResetUnlock, MainHolds
    <3>2. Gone' = Gone /\ Main \notin Gone /\ cache' = cache
      BY <2>9, ProcsAssumption DEF ResetUnlock
    <3>3. Guarded!Release(Main)
      BY <3>1, <3>2 DEF Guarded!Release
    <3> QED
      BY <3>3 DEF Guarded!Next
  <2> QED
    BY <2>1, <2>2, <2>3, <2>4, <2>5, <2>6, <2>7, <2>8, <2>9
       DEF Next, ChildNext, MainNext, Attempt
<1> QED
  BY <1>1, <1>2, Invariance, PTL DEF Spec, ImplementsGuardedCache, Guarded!Spec

-----------------------------------------------------------------------------
(* A response served from the cache is whole.                              *)

\* The cache is not switched on or off while the daemon runs: every age it is
\* given is an age, or none is.
KeptSwitched ==
    \A a, b \in MaxAges : TimeIsValid(a) <=> TimeIsValid(b)

\* upto[p] is the length of the parts before p, and the buffer has room for
\* all of them and a NUL when the cache is switched on.
Room(upto) ==
    /\ upto \in [0..LastPart + 1 -> Nat]
    /\ upto[0] = 0
    /\ \A p \in 0..LastPart : upto[p + 1] = upto[p] + PartLength[p]
    /\ \A p \in 0..LastPart, age \in MaxAges :
           TimeIsValid(age) => upto[p + 1] < SizeToAlloc(age)

\* The whole response, every part of it at its longest, fits in the cache.
ResponseFits == \E upto : Room(upto)

\* The size of the buffer is the one of the configured age.
Allocated == cache.size = SizeToAlloc(max_age)

\* With the cache on, the cache holds exactly what the builder has produced
\* so far, and no more than the parts it has come to.
CachedAsBuilt(upto) ==
    Configured =>
        \A c \in Child :
            /\ pc[c] \in {"header", "scrape", "output", "footer"} =>
                   /\ Len(built[c]) > PartLength[0]
                   /\ cache.data = Cacheable(built[c])
            /\ pc[c] \in {"header", "scrape"} => Len(cache.data) <= upto[1]
            /\ pc[c] = "output" => Len(cache.data) <= upto[part[c]]

\* A valid cache holds the response of a child that has finished it.
ValidIsWhole ==
    cache.valid_until # 0 =>
        \E b \in Child :
            pc[b] \in {"unlock", "ended"} /\ cache.data = Cacheable(built[b])

\* A child that serves the cache found it valid, and it still is.
HitIsValid == \A c \in Child : pc[c] = "hit" => cache.valid_until # 0

WholeInv(upto) == Allocated /\ CachedAsBuilt(upto) /\ ValidIsWhole /\ HitIsValid

\* The header is cached without its end.
LEMMA CacheableHeader ==
    ASSUME NEW c \in Child
    PROVE  /\ Cacheable(Text(c, 0) \o Mark(c)) = Text(c, 0)
           /\ Len(Text(c, 0) \o Mark(c)) = PartLength[0] + 1
           /\ Len(Text(c, 0)) = PartLength[0]
<1> DEFINE t == Text(c, 0)
           n == PartLength[0]
           s == Text(c, 0) \o Mark(c)
<1>1. n \in Nat \ {0} /\ 0 \in 0..LastPart
  BY PartLengthAssumption, LastPartAssumption
<1>2. t \in Seq(Sent) /\ Mark(c) \in Seq(Sent) /\ Len(Mark(c)) = 1
  BY <1>1, TextSent DEF Mark
<1>3. Len(t) = n /\ DOMAIN t = 1..n /\ t = [i \in 1..n |-> t[i]]
  BY <1>1, <1>2 DEF Text
<1>4. Len(s) = n + 1
  <2>1. Len(s) = Len(t) + Len(Mark(c))
    <3>1. \A x, y \in Seq(Sent) : Len(x \o y) = Len(x) + Len(y)
      OBVIOUS
    <3> QED
      BY <1>2, <3>1
  <2> HIDE DEF s, t, n
  <2> QED
    BY <1>2, <1>3, <2>1
<1>5. \A i \in 1..n : s[i] = t[i]
  BY <1>1, <1>2, <1>3
<1>6. Cacheable(s) = [i \in 1..n |-> t[i]]
  <2>1. 1..(Len(s) - 1) = 1..n
    BY <1>1, <1>4
  <2>2. Cacheable(s) = [i \in 1..n |-> IF i <= n THEN s[i] ELSE s[i + 1]]
    BY <2>1 DEF Cacheable
  <2>3. \A i \in 1..n : (IF i <= n THEN s[i] ELSE s[i + 1]) = t[i]
    <3> HIDE DEF s, t, n
    <3> QED
      BY <1>1, <1>5
  <2> HIDE DEF s, t, n
  <2> QED
    BY <2>2, <2>3
<1> QED
  BY <1>3, <1>4, <1>6

\* Text after the header is cached as it is.
LEMMA CacheableAppend ==
    ASSUME NEW s \in Seq(Sent), NEW t \in Seq(Sent), Len(s) > PartLength[0]
    PROVE  /\ Cacheable(s \o t) = Cacheable(s) \o t
           /\ Len(s \o t) > PartLength[0]
<1> DEFINE n == PartLength[0]
           k == Len(s)
           m == Len(t)
           left == Cacheable(s \o t)
           front == Cacheable(s)
           right == Cacheable(s) \o t
<1>1. n \in Nat \ {0} /\ k \in Nat /\ m \in Nat /\ k > n
  BY PartLengthAssumption, LastPartAssumption
<1>2. Len(s \o t) = k + m /\ \A i \in 1..k + m : (s \o t)[i] = IF i <= k THEN s[i] ELSE t[i - k]
  OBVIOUS
<1>3. /\ left = [i \in 1..(k + m - 1) |->
                     IF i <= n THEN (s \o t)[i] ELSE (s \o t)[i + 1]]
      /\ front = [i \in 1..(k - 1) |-> IF i <= n THEN s[i] ELSE s[i + 1]]
  BY <1>2 DEF Cacheable
<1>4. front \in Seq(Sent) /\ Len(front) = k - 1
  <2>1. \A i \in 1..(k - 1) : front[i] \in Sent
    BY <1>1, <1>3
  <2>2. k - 1 \in Nat
    BY <1>1
  <2>3. front \in [1..(k - 1) -> Sent]
    BY <1>3, <2>1
  <2> HIDE DEF front, k
  <2> QED
    BY <2>2, <2>3
<1>5. /\ right = [i \in 1..(k + m - 1) |->
                      IF i <= k - 1 THEN front[i] ELSE t[i - (k - 1)]]
  <2>1. right \in Seq(Sent) /\ Len(right) = k - 1 + m
    BY <1>1, <1>4
  <2>2. \A i \in 1..(k - 1 + m) : right[i] = IF i <= k - 1 THEN front[i] ELSE t[i - (k - 1)]
    BY <1>1, <1>4
  <2>3. right = [i \in 1..(k - 1 + m) |-> right[i]]
    <3>1. \A q \in Seq(Sent) : q = [i \in 1..Len(q) |-> q[i]]
      OBVIOUS
    <3> HIDE DEF right, front, k, m
    <3> QED
      BY <2>1, <3>1
  <2>4. k - 1 + m = k + m - 1
    BY <1>1
  <2> HIDE DEF right, front, k, m
  <2> QED
    BY <2>2, <2>3, <2>4
<1>6. ASSUME NEW i \in 1..(k + m - 1)
      PROVE  (IF i <= n THEN (s \o t)[i] ELSE (s \o t)[i + 1])
                = IF i <= k - 1 THEN front[i] ELSE t[i - (k - 1)]
  <2>1. i \in 1..k + m /\ i + 1 \in 1..k + m
    BY <1>1
  <2>2. /\ (s \o t)[i] = IF i <= k THEN s[i] ELSE t[i - k]
        /\ (s \o t)[i + 1] = IF i + 1 <= k THEN s[i + 1] ELSE t[i + 1 - k]
    BY <1>2, <2>1
  <2>3. i <= k - 1 => front[i] = IF i <= n THEN s[i] ELSE s[i + 1]
    BY <1>1, <1>3
  <2>4. i + 1 - k = i - (k - 1)
    BY <1>1
  <2> HIDE DEF front, k, m, n
  <2> QED
    BY <1>1, <2>2, <2>3, <2>4
<1>7. left = right
  <2> HIDE DEF left, right, front, k, m, n
  <2> QED
    BY <1>3, <1>5, <1>6
<1> QED
  BY <1>1, <1>2, <1>7

\* An append that fits adds the text and changes nothing else.
LEMMA AppendThatFits ==
    ASSUME NEW ch \in CacheOf(Piece), NEW t \in Seq(Piece), NEW most \in Nat,
           Len(ch.data) + Len(t) <= most, most < ch.size
    PROVE  /\ CacheAppend(ch, t).data = ch.data \o t
           /\ Len(CacheAppend(ch, t).data) <= most
<1>1. Len(ch.data) \in Nat /\ Len(t) \in Nat /\ ch.size \in Nat /\ ch.data \in Seq(Piece)
  BY DEF CacheOf
<1>2. CacheFits(ch, t)
  BY <1>1 DEF CacheFits
<1>3. CacheAppend(ch, t).data = ch.data \o t
  BY <1>2 DEF CacheAppend, CacheOf
<1>4. Len(ch.data \o t) = Len(ch.data) + Len(t)
  BY <1>1
<1> QED
  BY <1>1, <1>3, <1>4

\* The size of the buffer never changes, and neither does the age's validity.
LEMMA NextAllocated ==
    KeptSwitched /\ TypeOK /\ PartInRange /\ Allocated /\ [Next]_vars
        => Allocated' /\ (Configured' <=> Configured)
<1> SUFFICES ASSUME KeptSwitched, TypeOK, PartInRange, Allocated, [Next]_vars
             PROVE  Allocated' /\ (Configured' <=> Configured)
  OBVIOUS
<1>1. max_age \in MaxAges /\ max_age' \in MaxAges /\ cache \in CacheOf(Piece)
  BY NextType DEF TypeOK
<1>2. Configured' <=> Configured
  BY <1>1 DEF Configured, KeptSwitched
<1>3. SizeToAlloc(max_age') = SizeToAlloc(max_age)
  BY <1>1 DEF KeptSwitched, SizeToAlloc
<1>4. cache'.size = cache.size
  <2>1. CASE cache' = cache
    BY <2>1
  <2>2. CASE cache' = CacheInvalidate(cache)
    BY <1>1, <2>2, InvalidateCache
  <2>3. ASSUME NEW c \in Child, NEW p \in 0..LastPart,
               \/ cache' = CacheAppend(CacheInvalidate(cache), Text(c, p))
               \/ cache' = CacheAppend(cache, Text(c, p))
        PROVE  cache'.size = cache.size
    <3>1. Text(c, p) \in Seq(Piece)
      BY TextPieces
    <3>2. CacheInvalidate(cache) \in CacheOf(Piece) /\ CacheInvalidate(cache).size = cache.size
      BY <1>1, InvalidateCache
    <3>3. /\ CacheAppend(cache, Text(c, p)).size = cache.size
          /\ CacheAppend(CacheInvalidate(cache), Text(c, p)).size = cache.size
      BY <1>1, <3>1, <3>2, AppendCache
    <3> QED
      BY <2>3, <3>3
  <2>4. CASE cache' = CacheFinalize(cache, max_age, now)
    BY <1>1, <2>4, FinalizeCache, MaxAgesAssumption DEF TypeOK
  <2>5. ASSUME NEW c \in Child, BuildHeader(c)
        PROVE  cache'.size = cache.size
    BY <2>2, <2>3, <2>5, LastPartAssumption DEF BuildHeader
  <2>6. ASSUME NEW c \in Child, Output(c)
        PROVE  cache'.size = cache.size
    <3>1. part[c] \in 0..LastPart
      BY <2>6, LastPartAssumption DEF Output, PartInRange
    <3> QED
      BY <2>1, <2>3, <2>6, <3>1 DEF Output, MetricsCacheAppend
  <2>7. ASSUME NEW c \in Child, Footer(c)
        PROVE  cache'.size = cache.size
    BY <2>1, <2>4, <2>7 DEF Footer, MetricsCacheFinalize
  <2>8. CASE ResetInvalidate
    BY <2>2, <2>8 DEF ResetInvalidate
  <2>9. ASSUME NEW c \in Child,
               \/ Serve(c) \/ Attempt(c) \/ ServeHit(c) \/ WriteHeader(c) \/ Scrape(c)
               \/ Unlock(c)
        PROVE  cache'.size = cache.size
    BY <2>1, <2>9 DEF Serve, Attempt, Lock, TimeOut, ServeHit, WriteHeader, Scrape, Unlock
  <2>10. CASE \/ Reset \/ ResetLock \/ ResetUnlock \/ SigTerm \/ Shutdown
              \/ SetMaxAge \/ Tick \/ UNCHANGED vars
    BY <2>1, <2>10 DEF Reset, ResetLock, ResetUnlock, SigTerm, Shutdown, SetMaxAge,
                       Tick, vars
  <2> QED
    BY <2>5, <2>6, <2>7, <2>8, <2>9, <2>10 DEF Next, ChildNext, MainNext
<1> QED
  BY <1>2, <1>3, <1>4 DEF Allocated

\* Every step keeps the cache equal to what its builder has produced.
LEMMA NextCachedAsBuilt ==
    ASSUME NEW upto, Room(upto), KeptSwitched
    PROVE  TypeOK /\ LockAccounting /\ PartInRange /\ Allocated /\ CachedAsBuilt(upto)
               /\ [Next]_vars => CachedAsBuilt(upto)'
<1> SUFFICES ASSUME TypeOK, LockAccounting, PartInRange, Allocated, CachedAsBuilt(upto),
                    [Next]_vars, Configured'
             PROVE  \A d \in Child :
                      /\ pc'[d] \in {"header", "scrape", "output", "footer"} =>
                             /\ Len(built'[d]) > PartLength[0]
                             /\ cache'.data = Cacheable(built'[d])
                      /\ pc'[d] \in {"header", "scrape"} => Len(cache'.data) <= upto[1]
                      /\ pc'[d] = "output" => Len(cache'.data) <= upto[part'[d]]
  BY DEF CachedAsBuilt
<1> DEFINE Good(d) ==
             /\ pc'[d] \in {"header", "scrape", "output", "footer"} =>
                    /\ Len(built'[d]) > PartLength[0]
                    /\ cache'.data = Cacheable(built'[d])
             /\ pc'[d] \in {"header", "scrape"} => Len(cache'.data) <= upto[1]
             /\ pc'[d] = "output" => Len(cache'.data) <= upto[part'[d]]
<1> SUFFICES \A d \in Child : Good(d)
  OBVIOUS
<1> USE DEF Goto
<1>0. Configured /\ cache \in CacheOf(Piece) /\ max_age \in MaxAges /\ TimeIsValid(max_age)
  BY NextAllocated DEF TypeOK, Configured
<1>t. /\ pc \in [Child -> PC] /\ part \in [Child -> 0..LastPart + 1]
      /\ built \in [Child -> Seq(Sent)]
  BY DEF TypeOK
\* A step that leaves the cache and the texts alone, and begins no response.
<1>a. ASSUME UNCHANGED << cache, built, part >>,
             \A d \in Child :
                 /\ pc'[d] \in {"header", "scrape"} => pc[d] \in {"header", "scrape"}
                 /\ pc'[d] = "output" => pc[d] = "output"
                 /\ pc'[d] = "footer" => pc[d] = "footer"
      PROVE  \A d \in Child : Good(d)
  <2> SUFFICES ASSUME NEW d \in Child PROVE Good(d)
    OBVIOUS
  <2>1. /\ pc[d] \in {"header", "scrape", "output", "footer"} =>
               /\ Len(built[d]) > PartLength[0]
               /\ cache.data = Cacheable(built[d])
        /\ pc[d] \in {"header", "scrape"} => Len(cache.data) <= upto[1]
        /\ pc[d] = "output" => Len(cache.data) <= upto[part[d]]
    BY <1>0 DEF CachedAsBuilt
  <2> QED
    BY <1>a, <2>1
\* Nobody but c is building.
<1>c. ASSUME NEW c \in Child, pc[c] \in Critical, NEW where, pc' = [pc EXCEPT ![c] = where],
             Good(c)
      PROVE  \A d \in Child : Good(d)
  <2>1. \A d \in Child \ {c} : pc[d] \notin Critical
    BY <1>c, OnlyHolder
  <2>2. \A d \in Child \ {c} : pc'[d] \notin {"header", "scrape", "output", "footer"}
    BY <1>c, <1>t, <2>1
  <2> QED
    BY <1>c, <2>2
<1>1. ASSUME NEW c \in Child,
             Serve(c) \/ Attempt(c) \/ ServeHit(c) \/ WriteHeader(c) \/ Unlock(c)
      PROVE  \A d \in Child : Good(d)
  BY <1>1, <1>a, <1>t DEF Serve, Attempt, Lock, TimeOut, ServeHit, WriteThen, WriteHeader,
                          Unlock
<1>2. ASSUME NEW c \in Child, BuildHeader(c)
      PROVE  \A d \in Child : Good(d)
  <2> DEFINE empty == CacheInvalidate(cache)
  <2>1. empty \in CacheOf(Piece) /\ empty.data = << >> /\ empty.size = SizeToAlloc(max_age)
    BY <1>0, InvalidateCache DEF Allocated
  <2>2. /\ 0 \in 0..LastPart /\ upto[1] \in Nat /\ upto[1] = PartLength[0]
        /\ upto[1] < SizeToAlloc(max_age) /\ PartLength[0] \in Nat
    <3>1. 0 \in 0..LastPart /\ 1 \in 0..LastPart + 1 /\ 0 + 1 = 1
      BY LastPartAssumption
    <3>2. upto[0 + 1] = upto[0] + PartLength[0] /\ upto[0] = 0 /\ PartLength[0] \in Nat
      BY <3>1, PartLengthAssumption DEF Room
    <3> QED
      BY <1>0, <3>1, <3>2 DEF Room
  <2>3. Text(c, 0) \in Seq(Piece) /\ Len(Text(c, 0)) = PartLength[0]
    BY <2>2, TextPieces, CacheableHeader
  <2>4. Len(empty.data) + Len(Text(c, 0)) <= upto[1]
    BY <2>1, <2>2, <2>3
  <2>5. /\ CacheAppend(empty, Text(c, 0)).data = << >> \o Text(c, 0)
        /\ Len(CacheAppend(empty, Text(c, 0)).data) <= upto[1]
    <3> HIDE DEF empty
    <3> QED
      BY <2>1, <2>2, <2>3, <2>4, AppendThatFits
  <2>6. << >> \o Text(c, 0) = Text(c, 0)
    BY <2>3
  <2>7. cache' = CacheAppend(empty, Text(c, 0)) /\ pc' = [pc EXCEPT ![c] = "header"]
    BY <1>0, <1>2 DEF BuildHeader
  <2>8. built'[c] = Text(c, 0) \o Mark(c) /\ pc[c] = "miss" /\ pc'[c] = "header"
    BY <1>t, <1>2 DEF BuildHeader
  <2>9. Len(built'[c]) > PartLength[0] /\ cache'.data = Cacheable(built'[c])
    BY <2>2, <2>5, <2>6, <2>7, <2>8, CacheableHeader
  <2>10. Good(c)
    BY <2>5, <2>7, <2>8, <2>9
  <2> HIDE DEF Good
  <2> QED
    BY <1>c, <2>7, <2>8, <2>10
<1>3. ASSUME NEW c \in Child, Scrape(c)
      PROVE  \A d \in Child : Good(d)
  <2>1. /\ pc[c] = "scrape" /\ UNCHANGED << cache, built >>
        /\ Len(built[c]) > PartLength[0] /\ cache.data = Cacheable(built[c])
        /\ Len(cache.data) <= upto[1]
    BY <1>0, <1>3 DEF Scrape, CachedAsBuilt
  <2>2. CASE pc' = [pc EXCEPT ![c] = "output"] /\ part' = [part EXCEPT ![c] = 1]
    <3>1. pc'[c] = "output" /\ part'[c] = 1
      BY <1>t, <2>2
    <3>2. Good(c)
      BY <2>1, <3>1
    <3> HIDE DEF Good
    <3> QED
      BY <1>c, <2>1, <2>2, <3>2
  <2>3. CASE pc' = [pc EXCEPT ![c] = "leaked"]
    <3>1. Good(c)
      BY <1>t, <2>3
    <3> HIDE DEF Good
    <3> QED
      BY <1>c, <2>1, <2>3, <3>1
  <2> QED
    BY <1>3, <2>2, <2>3 DEF Scrape
<1>4. ASSUME NEW c \in Child, Output(c)
      PROVE  \A d \in Child : Good(d)
  <2> DEFINE p == part[c]
             t == Text(c, part[c])
             after == IF part[c] = LastPart THEN "footer" ELSE "output"
  <2>1. /\ pc[c] = "output" /\ Len(built[c]) > PartLength[0]
        /\ cache.data = Cacheable(built[c]) /\ Len(cache.data) <= upto[p]
        /\ built[c] \in Seq(Sent)
    BY <1>0, <1>t, <1>4 DEF Output, CachedAsBuilt
  <2>2. p \in 1..LastPart /\ p \in 0..LastPart /\ p + 1 \in 0..LastPart + 1 /\ p \in 0..LastPart + 1
    BY <1>4, LastPartAssumption DEF Output, PartInRange
  <2>3. /\ upto[p] \in Nat /\ upto[p + 1] \in Nat /\ PartLength[p] \in Nat
        /\ upto[p + 1] = upto[p] + PartLength[p] /\ upto[p + 1] < SizeToAlloc(max_age)
    BY <1>0, <2>2, PartLengthAssumption DEF Room
  <2>4. t \in Seq(Piece) /\ t \in Seq(Sent) /\ Len(t) = PartLength[p]
    <3>1. t \in Seq(Piece) /\ t \in Seq(Sent)
      BY <2>2, TextPieces, TextSent
    <3> QED
      BY <2>3, <3>1 DEF Text
  <2>5. Len(cache.data) \in Nat
    BY <1>0 DEF CacheOf
  <2>6. Len(cache.data) <= upto[p + 1]
    BY <2>1, <2>3, <2>5
  <2>7. CASE /\ built' = [built EXCEPT ![c] = @ \o t] /\ cache' = MetricsCacheAppend(t)
             /\ part' = [part EXCEPT ![c] = @ + 1] /\ pc' = [pc EXCEPT ![c] = after]
    <3>1. built'[c] = built[c] \o t /\ part'[c] = p + 1 /\ pc'[c] = after
      BY <1>t, <2>7
    <3>2. cache' = CacheAppend(cache, t)
      BY <1>0, <2>7 DEF MetricsCacheAppend
    <3>3. Len(cache.data) + Len(t) <= upto[p + 1] /\ upto[p + 1] < cache.size
      BY <2>1, <2>3, <2>4, <2>5 DEF Allocated
    <3>4. cache'.data = cache.data \o t /\ Len(cache'.data) <= upto[p + 1]
      <4> HIDE DEF t, p
      <4> QED
        BY <1>0, <2>3, <2>4, <3>2, <3>3, AppendThatFits
    <3>5. Len(built'[c]) > PartLength[0] /\ cache'.data = Cacheable(built'[c])
      <4> HIDE DEF t, p
      <4> QED
        BY <2>1, <2>4, <3>1, <3>4, CacheableAppend
    <3>6. Good(c)
      <4> HIDE DEF t, p
      <4> QED
        BY <3>1, <3>4, <3>5
    <3> HIDE DEF Good, after
    <3> QED
      BY <1>c, <2>1, <2>7, <3>6
  <2>8. CASE pc' = [pc EXCEPT ![c] = "leaked"]
    <3>1. Good(c)
      BY <1>t, <2>8
    <3> HIDE DEF Good
    <3> QED
      BY <1>c, <2>1, <2>8, <3>1
  <2>9. CASE /\ part' = [part EXCEPT ![c] = @ + 1] /\ pc' = [pc EXCEPT ![c] = after]
             /\ UNCHANGED << cache, built >>
    <3>1. part'[c] = p + 1 /\ pc'[c] = after
      BY <1>t, <2>9
    <3>2. Good(c)
      BY <2>1, <2>6, <2>9, <3>1
    <3> HIDE DEF Good, after
    <3> QED
      BY <1>c, <2>1, <2>9, <3>2
  <2> QED
    BY <1>4, <2>7, <2>8, <2>9 DEF Output
<1>5. ASSUME NEW c \in Child, Footer(c)
      PROVE  \A d \in Child : Good(d)
  <2>1. /\ pc[c] = "footer"
        /\ pc' = [pc EXCEPT ![c] = "unlock"] \/ pc' = [pc EXCEPT ![c] = "leaked"]
    BY <1>5 DEF Footer, WriteThen
  <2>2. Good(c)
    BY <1>t, <2>1
  <2> HIDE DEF Good
  <2> QED
    BY <1>c, <2>1, <2>2
<1>6. CASE ResetInvalidate
  <2>1. MainHolds /\ pc' = pc
    BY <1>6 DEF ResetInvalidate, MainHolds
  <2>2. \A d \in Child : pc[d] \notin Critical
    BY <2>1, MainAlone
  <2> QED
    BY <2>1, <2>2
<1>7. CASE \/ Reset \/ ResetLock \/ ResetUnlock \/ SigTerm \/ Shutdown
           \/ SetMaxAge \/ Tick \/ UNCHANGED vars
  BY <1>7, <1>a DEF Reset, ResetLock, ResetUnlock, SigTerm, Shutdown, SetMaxAge,
                    Tick, vars
<1> HIDE DEF Good
<1> QED
  BY <1>1, <1>2, <1>3, <1>4, <1>5, <1>6, <1>7 DEF Next, ChildNext, MainNext

\* Every step keeps a valid cache whole, and valid while it is served.
LEMMA NextValidIsWhole ==
    ASSUME NEW upto, Room(upto), KeptSwitched
    PROVE  TypeOK /\ LockAccounting /\ PartInRange /\ NothingBuiltYet /\ UnfinishedNotValid
               /\ CachedAsBuilt(upto) /\ ValidIsWhole /\ HitIsValid /\ [Next]_vars
               => ValidIsWhole' /\ HitIsValid'
<1> SUFFICES ASSUME TypeOK, LockAccounting, PartInRange, NothingBuiltYet,
                    UnfinishedNotValid, CachedAsBuilt(upto), ValidIsWhole, HitIsValid,
                    [Next]_vars
             PROVE  ValidIsWhole' /\ HitIsValid'
  OBVIOUS
<1> USE DEF Goto
<1>t. /\ pc \in [Child -> PC] /\ built \in [Child -> Seq(Sent)] /\ cache \in CacheOf(Piece)
      /\ max_age \in Nat /\ now \in Nat
  BY MaxAgesAssumption DEF TypeOK
\* A step that leaves the cache and every finished text alone.
<1>a. ASSUME UNCHANGED << cache, built >>,
             \A d \in Child :
                 /\ pc[d] \in {"unlock", "ended"} => pc'[d] \in {"unlock", "ended"}
                 /\ pc'[d] = "hit" => pc[d] = "hit" \/ cache.valid_until # 0
      PROVE  ValidIsWhole' /\ HitIsValid'
  BY <1>a DEF ValidIsWhole, HitIsValid
\* A step of the only process in the branch that leaves the cache invalid.
<1>b. ASSUME cache'.valid_until = 0, \A d \in Child : pc'[d] # "hit"
      PROVE  ValidIsWhole' /\ HitIsValid'
  BY <1>b DEF ValidIsWhole, HitIsValid
<1>1. ASSUME NEW c \in Child, Serve(c) \/ TimeOut(c)
      PROVE  ValidIsWhole' /\ HitIsValid'
  BY <1>1, <1>a, <1>t DEF Serve, TimeOut
<1>2. ASSUME NEW c \in Child, Lock(c)
      PROVE  ValidIsWhole' /\ HitIsValid'
  BY <1>2, <1>a, <1>t DEF Lock, CacheIsValid
<1>3. ASSUME NEW c \in Child,
             ServeHit(c) \/ WriteHeader(c) \/ Scrape(c) \/ Unlock(c)
      PROVE  ValidIsWhole' /\ HitIsValid'
  BY <1>3, <1>a, <1>t DEF ServeHit, WriteThen, WriteHeader, Scrape, Unlock
<1>o. ASSUME NEW c \in Child, pc[c] \in Critical
      PROVE  \A d \in Child \ {c} : pc[d] # "hit"
  BY <1>o, OnlyHolder
<1>4. ASSUME NEW c \in Child, BuildHeader(c)
      PROVE  ValidIsWhole' /\ HitIsValid'
  <2>1. CacheInvalidate(cache) \in CacheOf(Piece) /\ CacheInvalidate(cache).valid_until = 0
    BY <1>t, InvalidateCache
  <2>2. CacheAppend(CacheInvalidate(cache), Text(c, 0)).valid_until = 0
    <3>1. Text(c, 0) \in Seq(Piece)
      <4>1. 0 \in 0..LastPart
        BY LastPartAssumption
      <4> QED
        BY <4>1, TextPieces
    <3> QED
      BY <2>1, <3>1, AppendCache
  <2>3. \A d \in Child : pc'[d] # "hit"
    BY <1>4, <1>o, <1>t DEF BuildHeader
  <2> QED
    BY <1>4, <1>b, <2>1, <2>2, <2>3 DEF BuildHeader
<1>5. ASSUME NEW c \in Child, Output(c)
      PROVE  ValidIsWhole' /\ HitIsValid'
  <2>1. part[c] \in 0..LastPart
    BY <1>5, LastPartAssumption DEF Output, PartInRange
  <2>2. cache.valid_until = 0
    BY <1>5 DEF Output, UnfinishedNotValid, Building
  <2>3. CacheAppend(cache, Text(c, part[c])).valid_until = 0
    BY <1>t, <2>1, <2>2, AppendCache, TextPieces
  <2>4. \A d \in Child : pc'[d] # "hit"
    BY <1>5, <1>o, <1>t DEF Output
  <2> QED
    BY <1>5, <1>b, <2>2, <2>3, <2>4 DEF Output, MetricsCacheAppend
<1>6. ASSUME NEW c \in Child, Footer(c)
      PROVE  ValidIsWhole' /\ HitIsValid'
  <2>1. cache.valid_until = 0 /\ built' = built
    BY <1>6 DEF Footer, UnfinishedNotValid, Building
  <2>2. \A d \in Child : pc'[d] # "hit"
    BY <1>6, <1>o, <1>t DEF Footer, WriteThen
  <2>3. CASE cache' = cache
    BY <1>b, <2>1, <2>2, <2>3
  <2>4. CASE Configured /\ pc'[c] = "unlock" /\ cache' = CacheFinalize(cache, max_age, now)
    <3>1. cache'.data = cache.data
      BY <1>t, <2>4, FinalizeCache
    <3>2. cache.data = Cacheable(built[c])
      BY <1>6, <2>4 DEF Footer, CachedAsBuilt
    <3> QED
      BY <2>1, <2>2, <2>4, <3>1, <3>2 DEF ValidIsWhole, HitIsValid
  <2> QED
    BY <1>6, <2>3, <2>4 DEF Footer, MetricsCacheFinalize
<1>7. CASE ResetInvalidate
  <2>1. MainHolds /\ pc' = pc /\ cache' = CacheInvalidate(cache)
    BY <1>7 DEF ResetInvalidate, MainHolds
  <2>2. \A d \in Child : pc[d] \notin Critical
    BY <2>1, MainAlone
  <2> QED
    BY <1>b, <1>t, <2>1, <2>2, InvalidateCache
<1>8. CASE \/ Reset \/ ResetLock \/ ResetUnlock \/ SigTerm \/ Shutdown
           \/ SetMaxAge \/ Tick \/ UNCHANGED vars
  BY <1>8, <1>a DEF Reset, ResetLock, ResetUnlock, SigTerm, Shutdown, SetMaxAge,
                    Tick, vars
<1> QED
  BY <1>1, <1>2, <1>3, <1>4, <1>5, <1>6, <1>7, <1>8 DEF Next, ChildNext, Attempt, MainNext

\* A response served from the cache is a whole response, header and every
\* part, of one child: whatever children are killed or fail half-way, however
\* resets and changes of the maximal age interleave, provided the buffer has
\* room for a response and the cache is not switched on while one is built.
THEOREM HitsAreWhole == KeptSwitched /\ ResponseFits => (Spec => []HitIsWhole)
<1> SUFFICES ASSUME KeptSwitched, ResponseFits PROVE Spec => []HitIsWhole
  OBVIOUS
<1> PICK upto : Room(upto)
  BY DEF ResponseFits
<1>1. Init => WholeInv(upto)
  <2> SUFFICES ASSUME Init PROVE WholeInv(upto)
    OBVIOUS
  <2>1. cache = CacheInit(SizeToAlloc(max_age)) /\ pc = [c \in Child |-> "idle"]
    BY DEF Init
  <2>2. cache.valid_until = 0 /\ cache.size = SizeToAlloc(max_age)
    BY <2>1 DEF CacheInit
  <2> QED
    BY <2>1, <2>2 DEF WholeInv, Allocated, CachedAsBuilt, ValidIsWhole, HitIsValid
<1>2. IInv /\ WholeInv(upto) /\ [Next]_vars => WholeInv(upto)'
  BY NextAllocated, NextCachedAsBuilt, NextValidIsWhole DEF IInv, WholeInv
<1>3. WholeInv(upto) => HitIsWhole
  BY DEF WholeInv, HitIsValid, ValidIsWhole, HitIsWhole
<1> QED
  BY <1>1, <1>2, <1>3, Invariance, PTL DEF Spec

=============================================================================
