--------------------------- MODULE ServiceRegistry ---------------------------
(***************************************************************************)
(* ServiceRegistry (src/src/alpha/routing/service_registry.cpp): a map    *)
(* ServiceId -> PopList published as an immutable snapshot through        *)
(* atomic_load/atomic_store of a shared_ptr, with a version counter and   *)
(* per-operation counters.  A snapshot is never modified after it is      *)
(* published (copy-on-write), so a snapshot is modelled by its value:     *)
(* map_ is the content of the current snapshot.                           *)
(*                                                                        *)
(* Each writer call is split at the points where it touches shared state: *)
(* the snapshot() load, the atomic_store, the version fetch_add and the   *)
(* op-counter fetch_add.  Validation (validateId/validatePops) is pure    *)
(* and is abstracted to membership of a set of valid ids and lists.       *)
(***************************************************************************)
EXTENDS Naturals, Sequences, FiniteSets

CONSTANTS
  Writers,      \* threads calling mutations
  Readers,      \* threads calling version() and the read queries
  ServiceIds,   \* ids a caller may pass, valid or not
  PopLists,     \* pop lists a caller may pass, valid or not
  ValidIds,     \* the ids validateId accepts
  ValidLists,   \* the lists validatePops accepts
  Absent,       \* no entry for an id
  MaxServices,  \* Limits::MaxServices
  MaxCalls      \* bound on the number of calls

ASSUME /\ ValidIds \subseteq ServiceIds /\ ValidLists \subseteq PopLists
       /\ Absent \notin PopLists /\ MaxServices \in Nat /\ MaxCalls \in Nat

Maps == [ValidIds -> ValidLists \cup {Absent}]
EmptyMap == [s \in ValidIds |-> Absent]
Keys(m) == {s \in ValidIds : m[s] # Absent}
Size(m) == Cardinality(Keys(m))
Modes == {"add", "replace", "upsert"}
Errors == {"Invalid", "Exists", "NotFound", "Capacity"}
Counters == {"adds", "replaces", "upserts", "removes", "failures"}
CounterOf == [add |-> "adds", replace |-> "replaces", upsert |-> "upserts",
              remove |-> "removes"]

VARIABLES
  map_,      \* content of the snapshot map_ points to
  version_,  \* version_
  stats,     \* adds_, replaces_, upserts_, removes_, failures_
  wr,        \* per writer: the call in progress and its locals
  log,       \* ghost: completed calls, in completion order
  rd,        \* per reader: a version() read and a snapshot() read, in either order
  pubs       \* ghost: snapshots published so far (the generation of map_)

vars == <<map_, version_, stats, wr, log, rd, pubs>>

Idle == [pc |-> "idle", op |-> "none", id |-> Absent, list |-> Absent,
         before |-> EmptyMap, next |-> EmptyMap]

Init ==
  /\ map_ = EmptyMap
  /\ version_ = 0
  /\ stats = [c \in Counters |-> 0]
  /\ wr = [w \in Writers |-> Idle]
  /\ log = <<>>
  /\ rd = [r \in Readers |-> [pc |-> "idle", first |-> "version", val |-> 0, stale |-> FALSE]]
  /\ pubs = 0

\* The call of writer w returns ret; the log records the call.  No call
\* returns in the step that publishes, so map_ is what the call leaves.
Return(w, ret) ==
  /\ wr' = [wr EXCEPT ![w] = Idle]
  /\ log' = Append(log, [op |-> wr[w].op, id |-> wr[w].id, list |-> wr[w].list,
                         ret |-> ret, before |-> wr[w].before, after |-> map_])

\* Mutant: an error return that forgets the failures_ bump.
FailUncounted(w, err) ==
  /\ Return(w, err)
  /\ UNCHANGED <<pubs, map_, version_, stats>>

\* failures_.fetch_add(1); return err
Fail(w, err) ==
  /\ stats' = [stats EXCEPT !.failures = @ + 1]
  /\ Return(w, err)
  /\ UNCHANGED <<pubs, map_, version_>>

Call(w, op, id, list) ==
  /\ wr[w].pc = "idle"
  /\ Len(log) < MaxCalls
  /\ wr' = [wr EXCEPT ![w] = [Idle EXCEPT !.pc = "load", !.op = op, !.id = id,
                                          !.list = list]]
  /\ UNCHANGED <<pubs, map_, version_, stats, log>>

-----------------------------------------------------------------------------
(* mutate(mode, id, pops), via addService/replaceService/upsertService     *)

\* Mutant: the validatePops check is left out.
ValidIdOnly(id, list) == id \in ValidIds

\* validateId(service_id, MaxIdLen) && validatePops(pops)
Valid(id, list) == id \in ValidIds /\ list \in ValidLists

\* The entry checks of mutate fail: failures_ bumped, Invalid returned.
MutateValidate(w) ==
  /\ wr[w].pc = "load" /\ wr[w].op \in Modes
  /\ ~Valid(wr[w].id, wr[w].list)
  /\ Fail(w, "Invalid")

\* The code's insertion: next->emplace(id, pops) keeps an existing entry.
Emplace(m, id, list) == IF m[id] = Absent THEN [m EXCEPT ![id] = list] ELSE m

\* if (snap->size() > Limits::MaxServices) ... return Capacity
AtCapacity(m) == Size(m) > MaxServices

\* auto snap = snapshot(); the capacity test; next = copy of *snap;
\* exists = next->find(id) != end; the mode's own test.
MutateLoad(w) ==
  /\ wr[w].pc = "load" /\ wr[w].op \in Modes
  /\ Valid(wr[w].id, wr[w].list)
  /\ LET id == wr[w].id
         exists == map_[id] # Absent
         next == CASE wr[w].op = "replace" -> [map_ EXCEPT ![id] = wr[w].list]
                   [] OTHER -> Emplace(map_, id, wr[w].list)
     IN \/ AtCapacity(map_) /\ Fail(w, "Capacity")
        \/ ~AtCapacity(map_) /\ wr[w].op = "add" /\ exists /\ Fail(w, "Exists")
        \/ ~AtCapacity(map_) /\ wr[w].op = "replace" /\ ~exists /\ Fail(w, "NotFound")
        \/ /\ ~AtCapacity(map_)
           /\ wr[w].op = "upsert" \/ (wr[w].op = "add") # exists
           /\ wr' = [wr EXCEPT ![w] = [@ EXCEPT !.pc = "store", !.before = map_,
                                                !.next = next]]
           /\ UNCHANGED <<pubs, map_, version_, stats, log>>

-----------------------------------------------------------------------------
(* removeService(id) and clear()                                           *)

\* Mutant: the loaded snapshot is republished and the erased copy dropped.
RemoveLoadDropsErase(w) ==
  /\ wr[w].pc = "load" /\ wr[w].op = "remove"
  /\ LET erased == wr[w].id \in ValidIds /\ map_[wr[w].id] # Absent IN
     \/ /\ Size(map_) = 0 \/ ~erased
        /\ Return(w, "false") /\ UNCHANGED <<pubs, map_, version_, stats>>
     \/ /\ Size(map_) # 0 /\ erased
        /\ wr' = [wr EXCEPT ![w] = [@ EXCEPT !.pc = "store", !.before = map_,
                                             !.next = map_]]
        /\ UNCHANGED <<pubs, map_, version_, stats, log>>

\* snap = snapshot(); if (!snap || snap->empty()) return false; next = copy;
\* erased = next->find(id) != end; erase; if (!erased) return false.
\* An id validateId rejects is never a key, so it is never erased.
RemoveLoad(w) ==
  /\ wr[w].pc = "load" /\ wr[w].op = "remove"
  /\ LET erased == wr[w].id \in ValidIds /\ map_[wr[w].id] # Absent IN
     \/ /\ Size(map_) = 0 \/ ~erased
        /\ Return(w, "false") /\ UNCHANGED <<pubs, map_, version_, stats>>
     \/ /\ Size(map_) # 0 /\ erased
        /\ wr' = [wr EXCEPT ![w] = [@ EXCEPT !.pc = "store", !.before = map_,
                                             !.next = [map_ EXCEPT ![wr[w].id] = Absent]]]
        /\ UNCHANGED <<pubs, map_, version_, stats, log>>

\* clear(): next = make_shared<Map>() -- no load of the current snapshot.
ClearLoad(w) ==
  /\ wr[w].pc = "load" /\ wr[w].op = "clear"
  /\ wr' = [wr EXCEPT ![w] = [@ EXCEPT !.pc = "store", !.before = map_,
                                       !.next = EmptyMap]]
  /\ UNCHANGED <<pubs, map_, version_, stats, log>>

-----------------------------------------------------------------------------
(* The publication tail shared by every successful mutation                *)

\* atomic_store_explicit(&map_, cnext, release)
Publish(w) ==
  /\ wr[w].pc = "store"
  /\ map_' = wr[w].next
  /\ pubs' = pubs + 1
  /\ wr' = [wr EXCEPT ![w].pc = "version"]
  /\ UNCHANGED <<version_, stats, log>>

\* version_.fetch_add(1); clear() returns here, not counted.
BumpVersion(w) ==
  /\ wr[w].pc = "version"
  /\ version_' = version_ + 1
  /\ IF wr[w].op = "clear"
     THEN Return(w, "Ok") /\ UNCHANGED stats
     ELSE wr' = [wr EXCEPT ![w].pc = "count"] /\ UNCHANGED <<stats, log>>
  /\ UNCHANGED <<pubs, map_>>

\* adds_/replaces_/upserts_/removes_.fetch_add(1); return Ok (true).
BumpCounter(w) ==
  /\ wr[w].pc = "count"
  /\ stats' = [stats EXCEPT ![CounterOf[wr[w].op]] = @ + 1]
  /\ Return(w, IF wr[w].op = "remove" THEN "true" ELSE "Ok")
  /\ UNCHANGED <<pubs, map_, version_>>

-----------------------------------------------------------------------------
(* Readers: version() and the queries over snapshot()                      *)

\* A reader pairs a version() read with a snapshot() read, taking either
\* first.  val keeps the first read: the version, or the snapshot's
\* generation.  When the pair is complete, stale records whether the
\* version read exceeds the number of mutations the snapshot reflects.

\* version(): version_.load(relaxed)
ReadVersion(r) ==
  /\ rd[r].pc \in {"idle", "afterS"}
  /\ rd' = [rd EXCEPT ![r] =
              IF @.pc = "idle"
              THEN [pc |-> "afterV", first |-> "version", val |-> version_, stale |-> FALSE]
              ELSE [@ EXCEPT !.pc = "idle", !.val = 0, !.stale = version_ > rd[r].val]]
  /\ UNCHANGED <<map_, version_, stats, wr, log, pubs>>

\* getPopsCopy, hasService, size and listServices each take snap =
\* snapshot() (atomic_load, acquire) and then read only the immutable
\* *snap, so each is this one load; its result is a function of the map
\* the snapshot holds, and the reader keeps the snapshot's generation.
Query(r) ==
  /\ rd[r].pc \in {"idle", "afterV"}
  /\ rd' = [rd EXCEPT ![r] =
              IF @.pc = "idle"
              THEN [pc |-> "afterS", first |-> "snapshot", val |-> pubs, stale |-> FALSE]
              ELSE [@ EXCEPT !.pc = "idle", !.val = 0, !.stale = rd[r].val > pubs]]
  /\ UNCHANGED <<map_, version_, stats, wr, log, pubs>>

WriterStep(w) ==
  \/ \E op \in Modes, id \in ServiceIds, list \in PopLists : Call(w, op, id, list)
  \/ \E id \in ServiceIds : Call(w, "remove", id, Absent)
  \/ Call(w, "clear", Absent, Absent)
  \/ MutateValidate(w) \/ MutateLoad(w) \/ RemoveLoad(w) \/ ClearLoad(w)
  \/ Publish(w) \/ BumpVersion(w) \/ BumpCounter(w)

Next ==
  \/ \E w \in Writers : WriterStep(w) /\ UNCHANGED rd
  \/ \E r \in Readers : ReadVersion(r) \/ Query(r)

Spec == Init /\ [][Next]_vars

-----------------------------------------------------------------------------
TypeOK ==
  /\ map_ \in Maps /\ version_ \in Nat /\ stats \in [Counters -> Nat]
  /\ \A w \in Writers :
       /\ wr[w].pc \in {"idle", "load", "store", "version", "count"}
       /\ wr[w].op \in Modes \cup {"remove", "clear", "none"}
       /\ wr[w].before \in Maps /\ wr[w].next \in Maps
  /\ Len(log) <= MaxCalls
  /\ rd \in [Readers -> [pc : {"idle", "afterV", "afterS"},
                          first : {"version", "snapshot"}, val : Nat, stale : BOOLEAN]]
  /\ pubs \in Nat

Entries(P(_)) == {k \in 1 .. Len(log) : P(log[k])}
Succeeded(e) == e.ret \in {"Ok", "true"}
AllIdle == \A w \in Writers : wr[w].pc = "idle"

(* Round trip (spec.md 8): an add(id, p) that succeeds, followed directly  *)
(* by a remove(id) that returns true, leaves the snapshot with exactly the *)
(* content it had before the add.                                          *)
RemoveUndoesAdd ==
  \A k \in 1 .. Len(log) - 1 :
    /\ log[k].op = "add" /\ log[k].ret = "Ok"
    /\ log[k+1].op = "remove" /\ log[k+1].id = log[k].id /\ log[k+1].ret = "true"
    => log[k+1].after = log[k].before

(* Between calls, version_ counts the calls that published a snapshot, and *)
(* each of adds_, replaces_, upserts_, removes_ and failures_ counts the   *)
(* calls of its kind that returned Ok (true) or an error: every return     *)
(* path of mutate, removeService and clear bumps exactly what it should.   *)
CountersMatchCalls ==
  AllIdle =>
    /\ version_ = Cardinality(Entries(Succeeded))
    /\ \A op \in DOMAIN CounterOf :
         stats[CounterOf[op]] = Cardinality(Entries(LAMBDA e : e.op = op /\ Succeeded(e)))
    /\ stats.failures = Cardinality(Entries(LAMBDA e : e.ret \in Errors))

(* upsertService "Insert or replace service" (service_registry.hpp, spec   *)
(* 4.4): after an upsert(id, pops) returns Ok, the snapshot it published   *)
(* maps id to pops.                                                        *)
UpsertInstallsList ==
  \A k \in 1 .. Len(log) :
    log[k].op = "upsert" /\ log[k].ret = "Ok" => log[k].after[log[k].id] = log[k].list

(* Limits::MaxServices (spec 3, 8): the registry never holds more than     *)
(* MaxServices services; at MaxServices the next insertion is refused.     *)
CapacityRespected == Size(map_) <= MaxServices

(* "Writes are serialized per call" (service_registry.hpp): a service an    *)
(* add has installed stays until a later remove of it or a clear returns.  *)
AddsNotLost ==
  \A k \in 1 .. Len(log) :
    log[k].op = "add" /\ log[k].ret = "Ok" =>
      \/ map_[log[k].id] # Absent
      \/ \E j \in k+1 .. Len(log) :
            \/ log[j].op = "remove" /\ log[j].id = log[k].id /\ log[j].ret = "true"
            \/ log[j].op = "clear"

(* A reader that takes snapshot() and then reads version() = v holds a     *)
(* snapshot that reflects v mutations: the pair (snapshot, version) a      *)
(* caller would cache describes the snapshot.                              *)
VersionDescribesSnapshot ==
  \A r \in Readers :
    rd[r].pc = "idle" /\ rd[r].first = "snapshot" => ~rd[r].stale

=============================================================================
