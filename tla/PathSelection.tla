---------------------------- MODULE PathSelection ----------------------------
(***************************************************************************)
(* The path-selection policies of src/src/alpha/routing/path_selection.cpp *)
(* (RoundRobinPolicy, FlowHashPolicy, LatencyAwarePolicy) as operators,    *)
(* driven by a DP worker that calls choose() with whatever its seqlock     *)
(* reads of the candidates' MetricsSlots return.                           *)
(*                                                                         *)
(* A read of one candidate is a record: st = "fail" when dp::load_metrics  *)
(* returned false (MetricsSlot shows this happens only when CP writes     *)
(* overlap the read, which CP may do at any time), "down" or "up" for the *)
(* healthy flag of a successful read, with rtt_us and qos_class.  Indices  *)
(* are the code's 0-based candidate indices and, PathId being an index    *)
(* into the candidate set (spec.md 3), cands[k].id = k; an empty list      *)
(* returns 0, as the code does.                                            *)
(*                                                                         *)
(* Integers keep their wrap-around: idx_ is a u32 counter and              *)
(* bestm.rtt_us + tie_margin_us a u32 sum, both modulo 2^bits with the     *)
(* widths as constants.  The exploration's XorShift32 is computed as the  *)
(* code computes it, in 32 bits, from flow_hash ^ salt_.  The second     *)
(* reads of a slot, in the exploration scan and in the fallback pass, are  *)
(* free: CP may update the slot between the two.                           *)
(***************************************************************************)
EXTENDS Naturals, FiniteSetsExt, Bitwise

CONSTANTS
  MaxCands,    \* longest candidate list
  RttBits,     \* width of rtt_us (32 in the code)
  IdxBits,     \* width of RoundRobinPolicy::idx_ (32 in the code)
  TieMargin,   \* LatencyAwareConfig::tie_margin_us
  Hashes,      \* flow hashes a packet may carry, as u32 words
  ExplorePpms, \* LatencyAwareConfig::explore_ppm values
  MaxCalls     \* bound on the number of choose() calls

ASSUME MaxCands \in Nat /\ RttBits \in Nat /\ IdxBits \in Nat
       /\ TieMargin \in Nat /\ MaxCalls \in Nat
       /\ ExplorePpms \subseteq Nat

RttMod == 2^RttBits
IdxMod == 2^IdxBits
\* The healthy pass and the scans of RoundRobin and FlowHash read only the
\* healthy flag of a read that is not healthy, so such a read is Failed or
\* Down; the fallback pass reads only rtt_us.
Failed == [st |-> "fail", rtt |-> 0, qos |-> 0]
Down == [st |-> "down", rtt |-> 0, qos |-> 0]
Readings == {Failed, Down} \cup [st : {"up"}, rtt : 0 .. RttMod - 1, qos : {0, 1}]
ReadsOf(n) == [0 .. n - 1 -> Readings]
FallbackReadings == {Failed} \cup [st : {"read"}, rtt : 0 .. RttMod - 1, qos : {0}]
AllReads == UNION {ReadsOf(n) : n \in 0 .. MaxCands}
N(reads) == Cardinality(DOMAIN reads)

\* load_metrics(...) && m.healthy
Up(m) == m.st = "up"

\* qos_match(path_class, dscp): path_class != 0
QosMatch(c) == c # 0

-----------------------------------------------------------------------------
(* XorShift32 and the exploration draws                                    *)

\* A std::uint32_t as <<hi, lo>>, two 16-bit halves: TLC's integers are
\* 32-bit signed, so a u32 and its shifts do not fit in one.
H == 65536
Word(hi, lo) == <<hi, lo>>
ZeroSeed == Word(40503, 31161)   \* 0x9E3779B9, the seed used for a zero seed
Salt0 == Word(42405, 23130)      \* salt_{0xA5A55A5Au}
SaltStep == Word(0, 40503)       \* 0x9E37

WXor(a, b) == <<a[1] ^^ b[1], a[2] ^^ b[2]>>

\* a << k, 0 < k < 32, the bits past bit 31 dropped
WShl(a, k) ==
  IF k < 16 THEN <<(a[1] % 2^(16 - k)) * 2^k + a[2] \div 2^(16 - k), (a[2] % 2^(16 - k)) * 2^k>>
  ELSE <<(a[2] % 2^(32 - k)) * 2^(k - 16), 0>>

\* a >> k, 0 < k < 32
WShr(a, k) ==
  IF k >= 16 THEN <<0, a[1] \div 2^(k - 16)>>
  ELSE <<a[1] \div 2^k, a[2] \div 2^k + (a[1] % 2^k) * 2^(16 - k)>>

\* a + b on u32
WAdd(a, b) == <<(a[1] + b[1] + (a[2] + b[2]) \div H) % H, (a[2] + b[2]) % H>>

\* a % b for 0 < b <= 1000000, without forming hi * 65536
WMod(a, b) == ((((((a[1] % b) * 256) % b) * 256) % b) + a[2]) % b

\* XorShift32::next: x ^= x << 13; x ^= x >> 17; x ^= x << 5.
XsNext(x) ==
  LET a == WXor(x, WShl(x, 13))
      b == WXor(a, WShr(a, 17))
  IN WXor(b, WShl(b, 5))

\* XorShift32(seed): state(seed ? seed : 0x9E3779B9u)
XsSeed(seed) == IF seed # Word(0, 0) THEN seed ELSE ZeroSeed

\* next_bounded(b): b ? next() % b : 0, with the state it leaves.
NextBounded(x, b) ==
  IF b = 0 THEN [state |-> x, val |-> 0]
  ELSE [state |-> XsNext(x), val |-> WMod(XsNext(x), b)]

\* rng{flow_hash ^ salt}; roll = next_bounded(1'000'000);
\* start = next_bounded(n).
Draw(hash, s, n) ==
  LET d1 == NextBounded(XsSeed(WXor(hash, s)), 1000000)
  IN [roll |-> d1.val, start |-> NextBounded(d1.state, n).val]

\* Mutant: the fetch_add on a deviation left out.
PerturbSaltNone(s) == s

\* salt_.fetch_add(0x9E37u, relaxed) on a u32
PerturbSalt(s) == WAdd(s, SaltStep)

\* The values salt_ can hold after at most MaxCalls deviations, and the
\* draws for them.
RECURSIVE SaltAfter(_)
SaltAfter(k) == IF k = 0 THEN Salt0 ELSE PerturbSalt(SaltAfter(k - 1))
Salts == {SaltAfter(k) : k \in 0 .. MaxCalls}
DrawTable == [x \in Hashes \X Salts \X (1 .. MaxCands) |-> Draw(x[1], x[2], x[3])]

\* LatencyAwareConfig{explore_ppm, prefer_qos_class}; tie_margin_us is
\* TieMargin.
LatencyConfigs == [explore_ppm : ExplorePpms, prefer_qos_class : BOOLEAN]

-----------------------------------------------------------------------------
(* The code, loop by loop                                                  *)

\* Mutant: the scan starts one past the start index.
ScanHealthySkipStart(reads, base, i) ==
  LET n == N(reads)
      ks == {j \in 1 .. n : Up(reads[(base + j) % n])}
  IN IF ks = {} THEN base ELSE (base + Min(ks)) % n

\* Mutant: k = start + i, the % n left out.
RECURSIVE ScanHealthyUnwrapped(_, _, _)
ScanHealthyUnwrapped(reads, base, i) ==
  LET n == N(reads) IN
  IF i = n THEN base
  ELSE IF (base + i) < n /\ Up(reads[base + i]) THEN base + i
  ELSE IF (base + i) >= n /\ Up(reads[(base + i) % n]) THEN base + i
  ELSE ScanHealthyUnwrapped(reads, base, i + 1)

\* for (i = 0; i < n; ++i) { k = (start + i) % n; if (load && healthy) return k; }
\* return start;  -- RoundRobinPolicy and FlowHashPolicy share this loop.
RECURSIVE ScanHealthy(_, _, _)
ScanHealthy(reads, base, i) ==
  LET n == N(reads) IN
  IF i = n THEN base
  ELSE IF Up(reads[(base + i) % n]) THEN (base + i) % n
  ELSE ScanHealthy(reads, base, i + 1)

\* RoundRobinPolicy::choose with idx_ = idx before the fetch_add.
RoundRobinChoose(reads, idx) ==
  IF N(reads) = 0 THEN 0 ELSE ScanHealthy(reads, idx % N(reads), 0)

\* Mutant: skip_unhealthy_ is not consulted.
FlowHashChooseAlwaysScan(reads, hash, skip) ==
  IF N(reads) = 0 THEN 0 ELSE ScanHealthy(reads, WMod(hash, N(reads)), 0)

\* FlowHashPolicy::choose
FlowHashChoose(reads, hash, skip) ==
  LET n == N(reads) IN
  IF n = 0 THEN 0
  ELSE IF ~skip THEN WMod(hash, n)
  ELSE ScanHealthy(reads, WMod(hash, n), 0)

\* LatencyAwarePolicy::choose, healthy pass: min rtt_us with the QoS
\* tie-break, acc = [best, have, bestm].
RECURSIVE HealthyPass(_, _, _, _)
HealthyPass(reads, prefer, i, acc) ==
  IF i = N(reads) THEN acc
  ELSE LET m == reads[i] IN
    IF ~Up(m) THEN HealthyPass(reads, prefer, i + 1, acc)
    ELSE IF ~acc.have \/ m.rtt < acc.bestm.rtt
    THEN HealthyPass(reads, prefer, i + 1, [best |-> i, have |-> TRUE, bestm |-> m])
    ELSE IF /\ prefer
            /\ m.rtt <= (acc.bestm.rtt + TieMargin) % RttMod
            /\ QosMatch(m.qos) /\ ~QosMatch(acc.bestm.qos)
    THEN HealthyPass(reads, prefer, i + 1, [acc EXCEPT !.best = i, !.bestm = m])
    ELSE HealthyPass(reads, prefer, i + 1, acc)

\* Mutant: the fallback compares with <= and keeps the last of equal RTTs.
MinPassLastTie(reads, i, acc) ==
  LET ks == {k \in DOMAIN reads : reads[k].st # "fail"}
      low == {k \in ks : \A j \in ks : reads[k].rtt <= reads[j].rtt}
  IN IF ks = {} THEN acc ELSE [idx |-> Max(low), init |-> TRUE]

\* No healthy candidate: a second load_metrics of every slot (fb), and the
\* absolute minimum rtt_us over the ones it reads, acc = [idx, init].
RECURSIVE MinPass(_, _, _)
MinPass(reads, i, acc) ==
  IF i = N(reads) THEN acc
  ELSE IF reads[i].st = "fail" THEN MinPass(reads, i + 1, acc)
  ELSE IF ~acc.init \/ reads[i].rtt < reads[acc.idx].rtt
  THEN MinPass(reads, i + 1, [idx |-> i, init |-> TRUE])
  ELSE MinPass(reads, i + 1, acc)

\* Mutant: the exploration drops the health test of its second read.
ExploreScanAnyOther(again, start, best, i) ==
  LET n == N(again)
      ks == {j \in 0 .. n - 1 : (start + j) % n # best}
  IN IF ks = {} THEN best ELSE (start + Min(ks)) % n

\* Exploration: from start = rng.next_bounded(n), the first k != best
\* whose second read (again) is healthy; best if there is none.
RECURSIVE ExploreScan(_, _, _, _)
ExploreScan(again, start, best, i) ==
  LET n == N(again) IN
  IF i = n THEN best
  ELSE LET k == (start + i) % n IN
    IF k # best /\ again[k] THEN k
    ELSE ExploreScan(again, start, best, i + 1)

\* explore = [on: explore_ppm > 0 and the draw fell below it, start, again];
\* fb: the fallback pass's reads.
LatencyAwareChoose(reads, prefer, explore, fb) ==
  IF N(reads) = 0 THEN 0
  ELSE LET hp == HealthyPass(reads, prefer, 0, [best |-> 0, have |-> FALSE,
                                                bestm |-> Failed])
           mp == MinPass(fb, 0, [idx |-> 0, init |-> FALSE])
       IN IF ~hp.have THEN IF mp.init THEN mp.idx ELSE 0
          ELSE IF explore.on THEN ExploreScan(explore.again, explore.start, hp.best, 0)
          ELSE hp.best

-----------------------------------------------------------------------------
(* A DP worker calling the three policies                                  *)

NoExplore == [on |-> FALSE, start |-> 0, again |-> <<>>]
NoFallback == <<>>

\* The reads a call may see: any.
CallReads == AllReads

VARIABLES
  idx,    \* RoundRobinPolicy::idx_
  last,   \* ghost: the inputs and result of the latest choose() call
  prevRR, \* ghost: [n, start] of the latest RoundRobinPolicy::choose call
  calls,  \* ghost: choose() calls made
  salt,   \* LatencyAwarePolicy::salt_
  lcfg,   \* LatencyAwarePolicy::cfg_
  draws   \* ghost: DrawTable, held in the state so that TLC computes it once

vars == <<idx, last, prevRR, calls, salt, lcfg, draws>>

NoCall == [pol |-> "none", reads |-> <<>>, idx |-> 0, hash |-> Word(0, 0), skip |-> FALSE,
           prefer |-> FALSE, explore |-> NoExplore, fb |-> NoFallback, best |-> 0,
           result |-> 0]

\* idx_ starts at 0 and takes every u32 value over the policy's life; the
\* LatencyAwarePolicy is constructed with any config, and salt_ starts at
\* 0xA5A55A5A.
Init == idx \in 0 .. IdxMod - 1 /\ last = NoCall /\ prevRR = [n |-> 0, start |-> 0]
        /\ calls = 0 /\ salt = Salt0 /\ lcfg \in LatencyConfigs
        /\ draws = DrawTable

Call == calls < MaxCalls /\ calls' = calls + 1 /\ UNCHANGED draws

\* RoundRobinPolicy::choose: idx_.fetch_add(1) unless cands is empty.
CallRoundRobin ==
  /\ Call
  /\ \E reads \in CallReads :
       /\ last' = [NoCall EXCEPT !.pol = "rr", !.reads = reads, !.idx = idx,
                                 !.result = RoundRobinChoose(reads, idx)]
       /\ IF N(reads) = 0 THEN UNCHANGED <<idx, prevRR>>
          ELSE /\ idx' = (idx + 1) % IdxMod
               /\ prevRR' = [n |-> N(reads), start |-> idx % N(reads)]
  /\ UNCHANGED <<salt, lcfg>>

CallFlowHash ==
  /\ Call
  /\ \E reads \in CallReads, hash \in Hashes, skip \in BOOLEAN :
       last' = [NoCall EXCEPT !.pol = "flow", !.reads = reads, !.hash = hash,
                              !.skip = skip, !.result = FlowHashChoose(reads, hash, skip)]
  /\ UNCHANGED <<idx, prevRR, salt, lcfg>>

\* LatencyAwarePolicy::choose.  Without a healthy read, the fallback pass
\* reads every slot again (fb), and those reads are any.  With a healthy
\* best, explore_ppm != 0 and the roll below it, the scan starts at the
\* drawn start and its second reads (again) are any; a deviation from best
\* bumps salt_.
CallLatencyAware ==
  /\ Call
  /\ \E reads \in CallReads, hash \in Hashes :
       LET n == N(reads)
           prefer == lcfg.prefer_qos_class
           hp == HealthyPass(reads, prefer, 0, [best |-> 0, have |-> FALSE, bestm |-> Failed])
           d == draws[<<hash, salt, n>>]
           fires == hp.have /\ lcfg.explore_ppm # 0 /\ d.roll < lcfg.explore_ppm
       IN \E again \in IF fires THEN [0 .. n - 1 -> BOOLEAN] ELSE {<<>>},
             fb \in IF hp.have THEN {NoFallback} ELSE [0 .. n - 1 -> FallbackReadings] :
            LET explore == IF fires THEN [on |-> TRUE, start |-> d.start, again |-> again]
                           ELSE NoExplore
                res == LatencyAwareChoose(reads, prefer, explore, fb)
            IN /\ last' = [NoCall EXCEPT !.pol = "latency", !.reads = reads, !.hash = hash,
                                         !.prefer = prefer, !.explore = explore, !.fb = fb,
                                         !.best = hp.best, !.result = res]
               /\ salt' = IF fires /\ res # hp.best THEN PerturbSalt(salt) ELSE salt
  /\ UNCHANGED <<idx, prevRR, lcfg>>

Next == CallRoundRobin \/ CallFlowHash \/ CallLatencyAware

Spec == Init /\ [][Next]_vars

-----------------------------------------------------------------------------
(* Reference definitions, from the wording of spec.md 4.5                  *)

Healthy(reads) == {k \in DOMAIN reads : Up(reads[k])}
Readable(reads) == {k \in DOMAIN reads : reads[k].st # "fail"}

\* The first healthy candidate in cyclic order from base; base if none.
RotationRef(reads, base) ==
  LET n == N(reads)
      ks == {i \in 0 .. n - 1 : Up(reads[(base + i) % n])}
  IN IF ks = {} THEN base ELSE (base + Min(ks)) % n

TypeOK ==
  /\ idx \in 0 .. IdxMod - 1
  /\ last.pol \in {"none", "rr", "flow", "latency"}
  /\ last.reads \in AllReads
  /\ last.result \in 0 .. MaxCands - 1
  /\ prevRR \in [n : 0 .. MaxCands, start : 0 .. MaxCands]
  /\ salt \in Salts /\ lcfg \in LatencyConfigs

(* RoundRobinPolicy::choose returns the first candidate with a healthy     *)
(* read, scanning at most n from idx % n and wrapping, and the start       *)
(* candidate when none is healthy; 0 for an empty list.              *)
RoundRobinMatchesSpec ==
  last.pol = "rr" =>
    last.result = IF N(last.reads) = 0 THEN 0
                  ELSE RotationRef(last.reads, last.idx % N(last.reads))

(* FlowHashPolicy::choose returns flow_hash % n when skip_unhealthy is     *)
(* false, and otherwise the first healthy candidate from that base, the    *)
(* base itself when none is healthy.                                       *)
FlowHashMatchesSpec ==
  last.pol = "flow" =>
    last.result = IF N(last.reads) = 0 THEN 0
                  ELSE IF ~last.skip THEN WMod(last.hash, N(last.reads))
                  ELSE RotationRef(last.reads, WMod(last.hash, N(last.reads)))

(* LatencyAwarePolicy::choose returns a healthy candidate whenever one     *)
(* read healthy, exploration included: the candidate it explores to is     *)
(* healthy in the exploration's own read.                                  *)
LatencyPrefersHealthy ==
  last.pol = "latency" /\ Healthy(last.reads) # {} =>
    \/ last.result \in Healthy(last.reads)
    \/ last.explore.on /\ last.explore.again[last.result]

(* With no healthy read, LatencyAwarePolicy::choose returns the first of   *)
(* the candidates with the least rtt_us among those its fallback pass      *)
(* reads, and cands[0] when that pass reads none (spec.md 4.5 and 9).      *)
(* The fallback pass loads every slot again, so CP updates between the two *)
(* passes decide the answer: a candidate unreadable in the first pass can  *)
(* win, one readable there can drop out.                                   *)
LatencyFallbackMinRtt ==
  last.pol = "latency" /\ N(last.reads) > 0 /\ Healthy(last.reads) = {} =>
    LET rd == Readable(last.fb)
        low == {k \in rd : \A j \in rd : last.fb[k].rtt <= last.fb[j].rtt}
    IN last.result = IF rd = {} THEN 0 ELSE Min(low)

(* Spec.md 4.5, LatencyAware: the choice is the healthy candidate of       *)
(* minimum rtt_us, or, with prefer_qos_class, a QoS-matching healthy one   *)
(* whose RTT is within tie_margin_us of that minimum.                      *)
LatencyTieBreakBounded ==
  last.pol = "latency" /\ Healthy(last.reads) # {} /\ ~last.explore.on =>
    LET r == last.reads[last.result]
        least == Min({last.reads[k].rtt : k \in Healthy(last.reads)})
    IN \/ r.rtt = least
       \/ last.prefer /\ QosMatch(r.qos) /\ r.rtt <= least + TieMargin

(* Spec.md 4.5, exploration: when the roll falls below explore_ppm and a   *)
(* candidate other than the computed best reads healthy in the scan, the   *)
(* call deviates to such a candidate and perturbs salt_ by 0x9E37, so the  *)
(* next packet of the flow draws from another seed; otherwise salt_ stays  *)
(* and the call keeps its choice.                                          *)
ExplorationDeviates ==
  [][last'.pol = "latency" =>
       LET e == last'.explore
           others == {k \in DOMAIN e.again : k # last'.best /\ e.again[k]}
       IN IF e.on /\ others # {}
          THEN last'.result \in others /\ salt' = WAdd(salt, SaltStep)
          ELSE salt' = salt]_vars

(* Spec.md 4.5: idx_ is a monotonic counter and the start index idx % n;  *)
(* successive round-robin calls over n candidates start at successive      *)
(* indices.                                                                *)
RoundRobinRotates ==
  [][last'.pol = "rr" /\ N(last'.reads) > 0 /\ prevRR.n = N(last'.reads) =>
       prevRR'.start = (prevRR.start + 1) % prevRR.n]_vars

=============================================================================
