---------------------------- MODULE BridgeProofs ----------------------------
(***************************************************************************)
(* However many requests the two ports of the bridge serve, no lock is     *)
(* forgotten.                                                              *)
(***************************************************************************)
EXTENDS Bridge, TLAPS

\* The steps before the first metric, those of the JSON cache, and those after which a
\* lock still has to be released, or never will be.
Before    == {"idle", "wait", "hit", "miss", "scrape", "relock", "json_relock"}
NeedsJson == JsonReading \cup {"json_wait", "json_relock", "json_clear", "json_copy", "json_unlock",
                               "json_lost", "json_lost_unlock"}
Held      == Outer \cup {"leaked"}
JsonHeld  == JsonHolding \cup JsonReading \cup {"leaked"}

\* Requests of the bridge port only fill the cache, nobody uses the JSON cache unless it is
\* configured, and metrics are output from the first one to the last.
Place(c) ==
    /\ pc[c] \in {"wait", "crashed"} \cup Outer => c \in BridgeChild
    /\ pc[c] \in NeedsJson => JsonConfigured
    /\ pc[c] \in Before => part[c] = 1
    /\ pc[c] = "output" => part[c] <= LastMetric

Places == \A c \in Child : Place(c)

JsonUnused == ~ JsonConfigured => json_lock = "free"

IInv == TypeOK /\ Places /\ JsonUnused /\ LockHasReleaser

\* A step of c to `where` that leaves c in its place, and each lock free or with somebody
\* to release it.
Kept(c, where) ==
    /\ Goto(c, where)
    /\ where \in {"wait", "crashed"} \cup Outer => c \in BridgeChild
    /\ where \in NeedsJson => JsonConfigured
    /\ where \in Before => part'[c] = 1
    /\ where = "output" => part'[c] <= LastMetric
    /\ \A d \in Child : d # c => part'[d] = part[d]
    /\ ~ JsonConfigured => json_lock' = "free"
    /\ \/ lock' = "free"
       \/ where \in Held /\ c \in BridgeChild
       \/ lock' = lock /\ pc[c] \notin Held
    /\ \/ json_lock' = "free"
       \/ where \in JsonHeld
       \/ json_lock' = json_lock /\ pc[c] \notin JsonHeld

----------------------------------------------------------------------------

\* A step that is kept by one child is kept by all.
LEMMA KeptByAll ==
    ASSUME TypeOK, Places, LockHasReleaser, NEW c \in Child, NEW where \in PC, Kept(c, where)
    PROVE  pc' \in [Child -> PC] /\ Places' /\ JsonUnused' /\ LockHasReleaser'
<1>1. /\ pc' \in [Child -> PC] /\ pc'[c] = where
      /\ \A d \in Child : d # c => pc'[d] = pc[d] /\ part'[d] = part[d]
  BY DEF TypeOK, Kept, Goto
<1>2. Places'
  <2>1. Place(c)'
    BY <1>1 DEF Kept, Place
  <2>2. ASSUME NEW d \in Child, d # c PROVE Place(d)'
    BY <1>1, <2>2 DEF Places, Place
  <2>. QED
    BY <2>1, <2>2 DEF Places
<1>3. JsonUnused'
  BY DEF Kept, JsonUnused
<1>4. (lock = "in_use" => \E d \in BridgeChild : pc[d] \in Held)'
  <2>1. CASE lock' = "free" \/ (where \in Held /\ c \in BridgeChild)
    BY <1>1, <2>1
  <2>2. CASE lock' = lock /\ pc[c] \notin Held
    <3>. SUFFICES ASSUME lock = "in_use" PROVE \E d \in BridgeChild : pc'[d] \in Held
      BY <2>2
    <3>1. PICK d \in BridgeChild : pc[d] \in Held
      BY DEF LockHasReleaser, Held
    <3>. QED
      BY <1>1, <2>2, <3>1 DEF Child
  <2>. QED
    BY <2>1, <2>2 DEF Kept
<1>5. (json_lock = "in_use" => \E d \in Child : pc[d] \in JsonHeld)'
  <2>1. CASE json_lock' = "free" \/ where \in JsonHeld
    BY <1>1, <2>1
  <2>2. CASE json_lock' = json_lock /\ pc[c] \notin JsonHeld
    <3>. SUFFICES ASSUME json_lock = "in_use" PROVE \E d \in Child : pc'[d] \in JsonHeld
      BY <2>2
    <3>1. PICK d \in Child : pc[d] \in JsonHeld
      BY DEF LockHasReleaser, JsonHeld
    <3>. QED
      BY <1>1, <2>2, <3>1
  <2>. QED
    BY <2>1, <2>2 DEF Kept
<1>. QED
  BY <1>1, <1>2, <1>3, <1>4, <1>5 DEF LockHasReleaser, Held, JsonHeld

\* What Places says of one child.
LEMMA PlaceOf ==
    ASSUME TypeOK, Places, JsonUnused, NEW c \in Child
    PROVE  /\ Place(c) /\ part[c] \in 1..(LastMetric + 1) /\ (~ JsonConfigured => json_lock = "free")
           /\ LastMetric \in Nat \ {0}
BY BridgeAssumption DEF Places, TypeOK, JsonUnused

\* Every step of a request.
LEMMA RequestKept ==
    ASSUME TypeOK, Places, JsonUnused, NEW c \in Child,
           \/ Serve(c) \/ Lock(c) \/ TimeOut(c) \/ ServeHit(c) \/ StartResponse(c)
           \/ EndResponse(c) \/ Unlock(c)
    PROVE  \E where \in PC : Kept(c, where)
<1>. USE PlaceOf
<1>1. CASE Serve(c)
  BY <1>1 DEF Serve, Kept, Place, PC, Before, NeedsJson, Held, JsonHeld, JsonHolding, JsonReading, Outer
<1>2. CASE Lock(c)
  BY <1>2 DEF Lock, Kept, Place, PC, Before, NeedsJson, Held, JsonHeld, JsonHolding, JsonReading, Outer
<1>3. CASE TimeOut(c)
  BY <1>3 DEF TimeOut, Kept, Place, PC, Before, NeedsJson, Held, JsonHeld, JsonHolding, JsonReading, Outer
<1>4. CASE ServeHit(c)
  BY <1>4 DEF ServeHit, WriteThen, Kept, Place, PC, Before, NeedsJson, Held, JsonHeld, JsonHolding,
              JsonReading, Outer
<1>5. CASE StartResponse(c)
  BY <1>5 DEF StartResponse, WriteThen, Kept, Place, PC, Before, NeedsJson, Held, JsonHeld, JsonHolding,
              JsonReading, Outer
<1>6. CASE EndResponse(c)
  BY <1>6 DEF EndResponse, WriteIgnored, Kept, Place, PC, Before, NeedsJson, Held, JsonHeld, JsonHolding,
              JsonReading, Outer
<1>7. CASE Unlock(c)
  BY <1>7 DEF Unlock, Kept, Place, PC, Before, NeedsJson, Held, JsonHeld, JsonHolding, JsonReading, Outer
<1>. QED
  BY <1>1, <1>2, <1>3, <1>4, <1>5, <1>6, <1>7

\* Every step of bridge_metrics.
LEMMA BridgeMetricsKept ==
    ASSUME TypeOK, Places, JsonUnused, NEW c \in Child,
           \/ Scrape(c) \/ Relock(c) \/ JsonRelock(c) \/ Output(c) \/ JsonClear(c)
           \/ JsonCopy(c) \/ Finalize(c) \/ UnlockCache(c) \/ JsonUnlock(c)
    PROVE  \E where \in PC : Kept(c, where)
<1>. USE PlaceOf
<1>1. CASE Scrape(c)
  BY <1>1 DEF Scrape, Kept, Place, PC, Before, NeedsJson, Held, JsonHeld, JsonHolding,
              JsonReading, Outer
<1>2. CASE Relock(c)
  BY <1>2 DEF Relock, Kept, Place, PC, Before, NeedsJson, Held, JsonHeld, JsonHolding,
              JsonReading, Outer
<1>3. CASE JsonRelock(c)
  BY <1>3 DEF JsonRelock, Kept, Place, PC, Before, NeedsJson, Held, JsonHeld, JsonHolding,
              JsonReading, Outer
<1>4. CASE Output(c)
  <2>. /\ pc[c] = "output" /\ c \in BridgeChild /\ part[c] \in 1..LastMetric
       /\ UNCHANGED << lock, json_lock >>
    BY <1>4 DEF Output, Place, Outer
  <2>1. CASE "no_memory" \in Faults /\ Goto(c, IF JsonConfigured THEN "json_lost" ELSE "end")
             /\ UNCHANGED part
    BY <2>1 DEF Kept, Place, PC, Before, NeedsJson, Held, JsonHeld, JsonHolding,
                JsonReading, Outer
  <2>2. CASE part' = [part EXCEPT ![c] = @ + 1] /\ Goto(c, "leaked")
    BY <2>2 DEF TypeOK, Kept, Place, PC, Before, NeedsJson, Held, JsonHeld, JsonHolding,
                JsonReading, Outer
  <2>3. CASE part' = [part EXCEPT ![c] = @ + 1] /\ part[c] < LastMetric /\ Goto(c, "output")
    <3>. part'[c] <= LastMetric /\ \A d \in Child : d # c => part'[d] = part[d]
      BY <2>3 DEF TypeOK
    <3>. QED
      BY <2>3 DEF Kept, Place, PC, Before, NeedsJson, Held, JsonHeld, JsonHolding,
                JsonReading, Outer
  <2>4. CASE part' = [part EXCEPT ![c] = @ + 1]
             /\ Goto(c, IF JsonConfigured THEN "json_clear" ELSE "finalize")
    <3>. \A d \in Child : d # c => part'[d] = part[d]
      BY <2>4 DEF TypeOK
    <3>. QED
      BY <2>4 DEF Kept, Place, PC, Before, NeedsJson, Held, JsonHeld, JsonHolding,
                JsonReading, Outer
  <2>. QED
    BY <1>4, <2>1, <2>2, <2>3, <2>4 DEF Output, WriteIgnored
<1>5. CASE JsonClear(c)
  BY <1>5 DEF JsonClear, Kept, Place, PC, Before, NeedsJson, Held, JsonHeld, JsonHolding,
              JsonReading, Outer
<1>6. CASE JsonCopy(c)
  BY <1>6 DEF JsonCopy, Kept, Place, PC, Before, NeedsJson, Held, JsonHeld, JsonHolding,
              JsonReading, Outer
<1>7. CASE Finalize(c)
  BY <1>7 DEF Finalize, Kept, Place, PC, Before, NeedsJson, Held, JsonHeld, JsonHolding,
              JsonReading, Outer
<1>8. CASE UnlockCache(c)
  BY <1>8 DEF UnlockCache, Kept, Place, PC, Before, NeedsJson, Held, JsonHeld, JsonHolding,
              JsonReading, Outer
<1>9. CASE JsonUnlock(c)
  BY <1>9 DEF JsonUnlock, Kept, Place, PC, Before, NeedsJson, Held, JsonHeld, JsonHolding,
              JsonReading, Outer
<1>. QED
  BY <1>1, <1>2, <1>3, <1>4, <1>5, <1>6, <1>7, <1>8, <1>9

\* Every step of the JSON port.
LEMMA JsonKept ==
    ASSUME TypeOK, Places, JsonUnused, NEW c \in Child,
           \/ JsonServe(c) \/ JsonLock(c) \/ JsonStart(c) \/ JsonCheck(c) \/ JsonWrite(c)
           \/ JsonRelease(c)
    PROVE  \E where \in PC : Kept(c, where)
<1>. USE PlaceOf
<1>1. CASE JsonServe(c)
  BY <1>1 DEF JsonServe, Kept, Place, PC, Before, NeedsJson, Held, JsonHeld, JsonHolding,
              JsonReading, Outer
<1>2. CASE JsonLock(c)
  BY <1>2 DEF JsonLock, Kept, Place, PC, Before, NeedsJson, Held, JsonHeld, JsonHolding,
              JsonReading, Outer
<1>3. CASE JsonStart(c)
  BY <1>3 DEF JsonStart, WriteThen, Kept, Place, PC, Before, NeedsJson, Held, JsonHeld, JsonHolding,
              JsonReading, Outer
<1>4. CASE JsonCheck(c)
  BY <1>4 DEF JsonCheck, Kept, Place, PC, Before, NeedsJson, Held, JsonHeld, JsonHolding,
              JsonReading, Outer
<1>5. CASE JsonWrite(c)
  BY <1>5 DEF JsonWrite, WriteIgnored, Kept, Place, PC, Before, NeedsJson, Held, JsonHeld, JsonHolding,
              JsonReading, Outer
<1>6. CASE JsonRelease(c)
  BY <1>6 DEF JsonRelease, Kept, Place, PC, Before, NeedsJson, Held, JsonHeld, JsonHolding,
              JsonReading, Outer
<1>. QED
  BY <1>1, <1>2, <1>3, <1>4, <1>5, <1>6

\* The variables besides pc keep their type.
\* The operations of cache.c return caches of the pieces they were given.
LEMMA CacheTypes ==
    /\ \A n \in Nat : CacheInit(n) \in CacheOf(Piece)
    /\ \A ch \in CacheOf(Piece) :
         /\ CacheInvalidate(ch) \in CacheOf(Piece)
         /\ \A t \in Seq(Piece) : CacheAppend(ch, t) \in CacheOf(Piece)
         /\ \A age, time \in Nat : CacheFinalize(ch, age, time) \in CacheOf(Piece)
<1>1. \A n \in Nat : CacheInit(n) \in CacheOf(Piece)
  BY DEF CacheInit, CacheOf
<1>2. ASSUME NEW ch \in CacheOf(Piece) PROVE CacheInvalidate(ch) \in CacheOf(Piece)
  BY DEF CacheInvalidate, CacheOf
<1>3. ASSUME NEW ch \in CacheOf(Piece), NEW t \in Seq(Piece) PROVE CacheAppend(ch, t) \in CacheOf(Piece)
  <2>1. ch.data \o t \in Seq(Piece)
    BY DEF CacheOf
  <2>2. [ch EXCEPT !.data = ch.data \o t] \in CacheOf(Piece)
    BY <2>1 DEF CacheOf
  <2>. QED
    BY <1>2, <2>2 DEF CacheAppend
<1>4. \A age \in Nat : ToSeconds(age) \in Nat
  BY DEF ToSeconds, MillisPerSecond
<1>5. ASSUME NEW ch \in CacheOf(Piece), NEW age \in Nat, NEW time \in Nat
      PROVE  CacheFinalize(ch, age, time) \in CacheOf(Piece)
  BY <1>4 DEF CacheFinalize, CacheOf
<1>. QED
  BY <1>1, <1>2, <1>3, <1>5

LEMMA TypesKept ==
    ASSUME TypeOK, Places, NEW c \in Child, Serve(c) \/ JsonServe(c) \/ Attempt(c) \/ Work(c),
           pc' \in [Child -> PC]
    PROVE  TypeOK'
<1>. USE BridgeAssumption
<1>1. CASE Serve(c) \/ JsonServe(c)
  BY <1>1 DEF Serve, JsonServe, TypeOK
<1>2. CASE Lock(c) \/ TimeOut(c) \/ ServeHit(c) \/ EndResponse(c) \/ Unlock(c) \/ UnlockCache(c)
  BY <1>2 DEF Lock, TimeOut, ServeHit, EndResponse, Unlock, UnlockCache, TypeOK
<1>3. CASE JsonUnlock(c) \/ JsonStart(c) \/ JsonCheck(c) \/ JsonWrite(c) \/ JsonRelease(c)
  BY <1>3 DEF JsonUnlock, JsonStart, JsonCheck, JsonWrite, JsonRelease, TypeOK
<1>4. CASE Scrape(c)
  BY <1>4 DEF Scrape, TypeOK
<1>5. CASE StartResponse(c)
  <2>. cache' \in CacheOf(Piece)
    BY <1>5, CacheTypes DEF StartResponse, TypeOK
  <2>. QED
    BY <1>5 DEF StartResponse, TypeOK
<1>6. CASE Relock(c)
  <2>. cache' \in CacheOf(Piece)
    BY <1>6, CacheTypes DEF Relock, TypeOK
  <2>. QED
    BY <1>6 DEF Relock, TypeOK
<1>7. CASE JsonRelock(c) \/ JsonLock(c)
  BY <1>7 DEF JsonRelock, JsonLock, TypeOK
<1>8. CASE Output(c)
  <2>1. c \in BridgeChild /\ part[c] \in 1..LastMetric
    BY <1>8 DEF Output, Places, Place, Outer, TypeOK
  <2>2. << [by |-> c, part |-> part[c]] >> \in Seq(Piece)
    BY <2>1 DEF Piece
  <2>3. cache' \in CacheOf(Piece)
    <3>1. cache \in CacheOf(Piece)
      BY DEF TypeOK
    <3>2. CacheAppend(cache, << [by |-> c, part |-> part[c]] >>) \in CacheOf(Piece)
      BY <2>2, <3>1, CacheTypes, Zenon
    <3>. QED
      BY <1>8, <3>1, <3>2 DEF Output
  <2>4. part' \in [Child -> 1..LastMetric + 1]
    BY <1>8, <2>1 DEF Output, TypeOK
  <2>. QED
    BY <1>8, <2>3, <2>4 DEF Output, TypeOK
<1>9. CASE JsonClear(c) \/ JsonCopy(c)
  <2>1. pc[c] = "json_copy" => c \in BridgeChild
    BY DEF Places, Place, Outer
  <2>2. json' \in BridgeChild \cup {NoText}
    <3>1. CASE JsonClear(c)
      BY <3>1 DEF JsonClear
    <3>2. CASE JsonCopy(c)
      BY <3>2, <2>1 DEF JsonCopy, TypeOK
    <3>. QED
      BY <1>9, <3>1, <3>2
  <2>. QED
    BY <1>9, <2>2 DEF JsonClear, JsonCopy, TypeOK
<1>10. CASE Finalize(c)
  <2>. cache' \in CacheOf(Piece)
    BY <1>10, CacheTypes DEF Finalize, TypeOK
  <2>. QED
    BY <1>10 DEF Finalize, TypeOK
<1>. QED
  BY <1>1, <1>2, <1>3, <1>4, <1>5, <1>6, <1>7, <1>8, <1>9, <1>10 DEF Attempt, Work

LEMMA InitIInv == Init => IInv
<1>. SUFFICES ASSUME Init PROVE IInv
  OBVIOUS
<1>. USE BridgeAssumption
<1>1. SizeToAlloc \in Nat
  BY DEF SizeToAlloc
<1>2. cache \in CacheOf(Piece)
  BY <1>1, CacheTypes DEF Init
<1>3. TypeOK
  BY <1>2 DEF Init, TypeOK, PC
<1>4. Places
  BY DEF Init, Places, Place, Outer, NeedsJson, JsonReading
<1>. QED
  BY <1>3, <1>4 DEF Init, IInv, JsonUnused, LockHasReleaser

LEMMA NextIInv == IInv /\ [Next]_vars => IInv'
<1>. SUFFICES ASSUME IInv, [Next]_vars PROVE IInv'
  OBVIOUS
<1>. TypeOK /\ Places /\ JsonUnused /\ LockHasReleaser
  BY DEF IInv
<1>1. ASSUME NEW c \in Child, Serve(c) \/ JsonServe(c) \/ Attempt(c) \/ Work(c) PROVE IInv'
  <2>1. \E where \in PC : Kept(c, where)
    BY <1>1, RequestKept, BridgeMetricsKept, JsonKept DEF Attempt, Work
  <2>2. pc' \in [Child -> PC] /\ Places' /\ JsonUnused' /\ LockHasReleaser'
    BY <2>1, KeptByAll
  <2>3. TypeOK'
    BY <1>1, <2>2, TypesKept
  <2>. QED
    BY <2>2, <2>3 DEF IInv
<1>2. CASE Tick \/ UNCHANGED vars
  <2>1. /\ now' \in Nat
        /\ UNCHANGED << lock, json_lock, cache, json, pc, expected, expected_json, start_time, part >>
    BY <1>2 DEF Tick, vars, TypeOK
  <2>2. TypeOK'
    BY <2>1 DEF TypeOK
  <2>. QED
    BY <2>1, <2>2 DEF IInv, Places, Place, JsonUnused, LockHasReleaser
<1>. QED
  BY <1>1, <1>2 DEF Next

----------------------------------------------------------------------------

\* For any number of children, metrics and failures, every variable of the bridge keeps its
\* type: in particular only children of the bridge port write into either cache, and none
\* outputs a metric past the last (metrics_page, bridge_metrics, bridge_json_metrics).
THEOREM TypeCorrect == Spec => []TypeOK
<1>1. IInv => TypeOK
  BY DEF IInv
<1>. QED
  BY <1>1, InitIInv, NextIInv, PTL DEF Spec

\* For any number of children of both ports, each of the two locks, when it is in use, has a
\* process that will release it or that was lost with it, although bridge_metrics takes the
\* lock metrics_page holds, both release it, and a stale expected value takes a taken lock.
THEOREM LocksHaveReleasers == Spec => []LockHasReleaser
<1>1. IInv => LockHasReleaser
  BY DEF IInv
<1>. QED
  BY <1>1, InitIInv, NextIInv, PTL DEF Spec
=============================================================================
