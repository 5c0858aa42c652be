---------------------------- MODULE PopValidation ----------------------------
(***************************************************************************)
(* The input checks of the service registry: ServiceRegistry::validateId, *)
(* validateIp and validatePops (service_registry.cpp) over the Pop         *)
(* descriptor of pop.hpp.  Pure functions, so they are operators.          *)
(*                                                                         *)
(* A string is abstracted to what the checks test of it: a name (two       *)
(* strings with different names differ, and the order of names stands for *)
(* the lexicographic order std::sort uses), its length, and whether every *)
(* character is in [A-Za-z0-9_-] (for an IP literal: whether inet_pton    *)
(* parses it as IPv4 or IPv6).                                             *)
(***************************************************************************)
EXTENDS Naturals, Sequences, TLC

\* ServiceRegistry::Limits.
MaxPopsPerService == 32
MaxIdLen == 32
MaxRegionLen == 32
MaxIpLen == 64

\* enum class Health : uint8_t.
Health == {"Up", "Degraded", "Down"}

\* A string of length len, named name; ok: its characters pass the test.
Str(name, len, ok) == [name |-> name, len |-> len, ok |-> ok]

\* struct Pop, with the member defaults weight 100 and health Up.
Pop(id, region, ip) ==
  [id |-> id, region |-> region, ip |-> ip, weight |-> 100, health |-> "Up"]

\* validateId(id, maxLen): 2..maxLen characters, all in [A-Za-z0-9_-].
ValidateId(id, maxLen) ==
  /\ ~(id.len = 0 \/ id.len > maxLen)
  /\ ~(id.len < 2)
  /\ id.ok

\* validateIp(ip): 1..MaxIpLen characters, and inet_pton parses it.
ValidateIp(ip) ==
  /\ ~(ip.len = 0 \/ ip.len > MaxIpLen)
  /\ ip.ok

\* The ids vector of validatePops, in list order.
IdsOf(pops) == [k \in DOMAIN pops |-> pops[k].id.name]

\* std::adjacent_find(ids) != ids.end()
AdjacentEqual(ids) == \E k \in 1 .. Len(ids) - 1 : ids[k] = ids[k + 1]

\* Mutant: the std::sort before adjacent_find left out.
ValidatePopsUnsorted(pops) ==
  /\ ~(pops = <<>> \/ Len(pops) > MaxPopsPerService)
  /\ \A k \in DOMAIN pops :
       /\ ValidateId(pops[k].id, MaxIdLen)
       /\ ValidateId(pops[k].region, MaxRegionLen)
       /\ ValidateIp(pops[k].ip)
  /\ ~AdjacentEqual(IdsOf(pops))

\* validatePops(pops): size 1..MaxPopsPerService; every id, region and ip
\* valid; then the ids sorted and no two neighbours equal.
ValidatePops(pops) ==
  /\ ~(pops = <<>> \/ Len(pops) > MaxPopsPerService)
  /\ \A k \in DOMAIN pops :
       /\ ValidateId(pops[k].id, MaxIdLen)
       /\ ValidateId(pops[k].region, MaxRegionLen)
       /\ ValidateIp(pops[k].ip)
  /\ ~AdjacentEqual(SortSeq(IdsOf(pops), <))

-----------------------------------------------------------------------------
(* The rules of spec.md 3 (Pop) and 4.4 (Validation), as the reference:    *)
(* id 2..32 characters of the class, region 1..32 of the class, ip parses  *)
(* and is at most 64 characters, ids unique in the list, list size 1..32.  *)

SpecPopValid(p) ==
  /\ p.id.len \in 2 .. MaxIdLen /\ p.id.ok
  /\ p.region.len \in 1 .. MaxRegionLen /\ p.region.ok
  /\ p.ip.len \in 1 .. MaxIpLen /\ p.ip.ok

SpecValidPops(pops) ==
  /\ Len(pops) \in 1 .. MaxPopsPerService
  /\ \A k \in DOMAIN pops : SpecPopValid(pops[k])
  /\ \A j, k \in DOMAIN pops : j # k => pops[j].id.name # pops[k].id.name
==============================================================================
