------------------------- MODULE MCServiceRegistry --------------------------
(* Ids: two valid ones and one validateId rejects ("x", one character).    *)
(* Lists: concrete PoP lists, valid when PopValidation's validatePops      *)
(* accepts them: one PoP; two PoPs; three PoPs whose ids repeat out of     *)
(* order (only the sort makes adjacent_find see the repeat); and, for the  *)
(* region run, one PoP whose region has one character.  MaxServices = 1    *)
(* stands for 128: the capacity test depends only on size versus the limit *)
EXTENDS ServiceRegistry, TLC
CONSTANTS w1, w2, r1, s1, s2, sBad
PV == INSTANCE PopValidation
MCServiceIds == {s1, s2, sBad}
MCValidIds == {s1, s2}

\* "nyc", "sfo", "us-east", "r", "192.0.2.10"
IdNyc == PV!Str(1, 3, TRUE)
IdSfo == PV!Str(2, 3, TRUE)
RegionEast == PV!Str(3, 7, TRUE)
RegionR == PV!Str(4, 1, TRUE)
Ip == PV!Str(5, 10, TRUE)
L1 == <<PV!Pop(IdNyc, RegionEast, Ip)>>
L2 == <<PV!Pop(IdSfo, RegionEast, Ip), PV!Pop(IdNyc, RegionEast, Ip)>>
LDup == <<PV!Pop(IdNyc, RegionEast, Ip), PV!Pop(IdSfo, RegionEast, Ip),
          PV!Pop(IdNyc, RegionEast, Ip)>>
LRegion == <<PV!Pop(IdNyc, RegionR, Ip)>>
MCPopLists == {L1, L2, LDup}
MCPopListsRegion == {L1, LRegion}
MCValidLists == {l \in MCPopLists : PV!ValidatePops(l)}
MCValidListsRegion == {l \in MCPopListsRegion : PV!ValidatePops(l)}
OneWriter == {w1}
TwoWriters == {w1, w2}
OneReader == {r1}
NoReaders == {}
\* The valid ids are interchangeable: no definition names one of them.
Symmetry == Permutations({s1, s2})

(* Every list a published snapshot holds meets the PoP rules of spec.md 3  *)
(* and 4.4: 1..32 PoPs with unique ids and valid id, region and ip.  The    *)
(* registry's entry check (validatePops: the field checks, then std::sort  *)
(* and adjacent_find over the ids) keeps out every list that breaks them.  *)
PublishedListsWellFormed == \A s \in Keys(map_) : PV!SpecValidPops(map_[s])

(* spec.md 3 lets a region have 1..32 characters.  An add of a valid, new  *)
(* id below capacity, with a list that meets spec.md's rules, returns Ok.  *)
SpecValidAddAccepted ==
  \A k \in 1 .. Len(log) :
    /\ log[k].op = "add" /\ log[k].id \in ValidIds
    /\ PV!SpecValidPops(log[k].list)
    /\ log[k].before[log[k].id] = Absent /\ ~AtCapacity(log[k].before)
    => log[k].ret = "Ok"
=============================================================================
