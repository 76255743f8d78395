------------------------------ MODULE Rightsize -----------------------------
(* Right-sizing: which Profile a workflow job should move to, from what its   *)
(* Attempts of the window used (packages/backend/convex/rightsizeModel.ts),   *)
(* and a job that follows the recommendations while it runs the same work in  *)
(* every window.                                                              *)
(*                                                                            *)
(* CPU is in tenths of a vCPU; a Profile's name stands for its family and its *)
(* size. A run measures what its Profile lets it use: no more CPU than there  *)
(* is, and its working set or, of a microVM, the resident memory of the VMM,  *)
(* which page cache may fill up to the whole allotment.                       *)
EXTENDS Naturals, FiniteSets, FiniteSetsExt

CONSTANTS
  FirstProfiles,  \* the Profiles registered at first: [family, vcpus, mem]
  Loads,          \* what a run may ask for: [cpu, mem]
  JobRuns,        \* the Attempts of a window
  MinAttempts,    \* MIN_ATTEMPTS
  StandardVcpus,  \* STANDARD_VCPUS
  MemPerVcpu,     \* DEFAULT_GIB_PER_VCPU
  MaxMem,         \* MAX_GIB
  MaxProfiles,    \* Profiles an operator registers in all
  MaxPaused,      \* and pauses at a time
  NoProfile

ASSUME RightsizeAssumption ==
  /\ \A p \in FirstProfiles : {p.vcpus, p.mem} \subseteq Nat \ {0}
  /\ \A l \in Loads : {l.cpu, l.mem} \subseteq Nat
  /\ StandardVcpus \subseteq Nat \ {0}
  /\ {MinAttempts, MemPerVcpu, MaxMem, MaxProfiles} \subseteq Nat \ {0} /\ MaxPaused \in Nat

VARIABLES
  load,        \* what each run of the job asks for
  qualified,   \* the runs whose measurements count
  microVM,     \* whether the executor only knows resident memory
  profiles, paused,  \* registered Profiles, and the paused ones
  placedOn,    \* the Profile of the job's runs-on
  leftBehind,  \* history: the Profiles it has moved away from
  verdict, moved,    \* the last verdict, and the last that moved the job
  suggested    \* suggestedProfile, until someone registers it

sizeVars == <<load, qualified, microVM, profiles, paused, placedOn, leftBehind, verdict, moved,
              suggested>>

RightsizeInit ==
  /\ load \in [JobRuns -> Loads] /\ qualified \in SUBSET JobRuns /\ microVM \in BOOLEAN
  /\ profiles = FirstProfiles /\ paused = {} /\ placedOn \in FirstProfiles
  /\ leftBehind = {} /\ verdict = "none" /\ moved = "none" /\ suggested = NoProfile

LesserOf(m, n) == IF m < n THEN m ELSE n

(* What a window shows of each qualifying run on Profile p. Memory a run is   *)
(* refused shows as an OOM kill.                                              *)
Windows(p) ==
  LET peak(r) == LesserOf(load[r].mem, p.mem)
  IN  {[r \in qualified |->
          [cpu |-> LesserOf(load[r].cpu, 10 * p.vcpus), peak |-> full[r],
           oom |-> load[r].mem > p.mem]] :
         full \in {f \in [qualified -> 0..p.mem] :
                     \A r \in qualified : f[r] = peak(r) \/ (microVM /\ f[r] = p.mem)}}

(* The smallest value at least that many percent of the values are at or      *)
(* below.                                                                     *)
nearestRank(values, percent) ==
  LET runs == DOMAIN values
  IN  Min({values[r] : r \in {s \in runs :
             100 * Cardinality({t \in runs : values[t] <= values[s]}) >= percent * Cardinality(runs)}})

sameFamily(p, q) == p.family = q.family

(* A Profile carries the CPU at no more than seven tenths.                    *)
carries(vcpus, need) ==
  /\ 7 * vcpus >= need.cpu /\ vcpus >= need.vcpus /\ vcpus > need.vcpusAbove
holds(mem, need) == 10 * mem >= need.tenMem /\ mem > need.memAbove
fits(p, need) == carries(p.vcpus, need) /\ holds(p.mem, need)

bySize(p, q) == p.vcpus < q.vcpus \/ (p.vcpus = q.vcpus /\ p.mem <= q.mem)
Smallest(S) == CHOOSE p \in S : \A q \in S : bySize(p, q)

(* A vendor's step that carries the CPU, with the usual memory to it or twice *)
(* that, and so on.                                                           *)
standardSize(family, need) ==
  LET steps == {v \in StandardVcpus : carries(v, need)}
      v == Min(steps)
      sizes == {m \in {MemPerVcpu * v * 2^k : k \in 0..8} :
                  holds(m, need) /\ (m <= MaxMem \/ m = MemPerVcpu * v)}
  IN  IF steps = {} THEN NoProfile
      ELSE IF sizes = {} THEN NoProfile
      ELSE [family |-> family, vcpus |-> v, mem |-> Min(sizes)]

SmallerThan(p, q) == p.vcpus <= q.vcpus /\ p.mem <= q.mem /\ p # q

(* What the runs need. Without an OOM kill or pressure the current memory is  *)
(* enough; resident memory is no pressure.                                    *)
(* Mutant of needOf: the CPU is judged without headroom.                      *)
needBare(w, p, saturated, short) ==
  LET cpuP95 == nearestRank([r \in DOMAIN w |-> w[r].cpu], 95)
      peak == Max({w[r].peak : r \in DOMAIN w})
  IN  [cpu |-> (7 * cpuP95) \div 10, vcpus |-> 1,
       vcpusAbove |-> IF saturated THEN p.vcpus ELSE 0,
       tenMem |-> IF short THEN 13 * peak ELSE LesserOf(13 * peak, 10 * p.mem),
       memAbove |-> IF short THEN p.mem ELSE 0]
needOf(w, p, saturated, short) ==
  LET cpuP95 == nearestRank([r \in DOMAIN w |-> w[r].cpu], 95)
      peak == Max({w[r].peak : r \in DOMAIN w})
  IN  [cpu |-> cpuP95, vcpus |-> 1, vcpusAbove |-> IF saturated THEN p.vcpus ELSE 0,
       tenMem |-> IF short THEN 13 * peak ELSE LesserOf(13 * peak, 10 * p.mem),
       memAbove |-> IF short THEN p.mem ELSE 0]

Recommend(how, to, suggestion) == [verdict |-> how, to |-> to, suggestion |-> suggestion]

(* One job's recommendation: up when the median run saturates the CPU or any  *)
(* run is short of memory, without giving up the other; down to what leaves   *)
(* headroom on both; to an active Profile of the family, or the name of one.  *)
recommend(w, p) ==
  LET saturated == nearestRank([r \in DOMAIN w |-> w[r].cpu], 50) >= 9 * p.vcpus
      pressed == ~microVM /\ \E r \in DOMAIN w : 10 * w[r].peak >= 9 * p.mem
      short == pressed \/ \E r \in DOMAIN w : w[r].oom
      need == needOf(w, p, saturated, short)
      upNeed == [need EXCEPT !.vcpus = IF saturated THEN 1 ELSE p.vcpus,
                             !.tenMem = IF short \/ @ > 10 * p.mem THEN @ ELSE 10 * p.mem]
      family == {q \in profiles \ paused : q # p /\ sameFamily(q, p)}
      larger == {q \in family : fits(q, upNeed)}
      smaller == {q \in family : SmallerThan(q, p) /\ fits(q, need)}
      ideal == standardSize(p.family, need)
  IN  IF Cardinality(DOMAIN w) < MinAttempts
        THEN Recommend("insufficient_data", NoProfile, NoProfile)
      ELSE IF saturated \/ short
        THEN IF larger # {} THEN Recommend("upsize", Smallest(larger), NoProfile)
             ELSE Recommend("upsize", NoProfile, standardSize(p.family, upNeed))
      ELSE IF smaller # {} THEN Recommend("downsize", Smallest(smaller), NoProfile)
      ELSE IF ideal # NoProfile /\ SmallerThan(ideal, p)
        THEN Recommend("downsize", NoProfile, ideal)
      ELSE Recommend("keep", NoProfile, NoProfile)

(* A window passes, and the runs-on of the job is rewritten to the Profile    *)
(* recommended, if a registered one is (runsOnMap).                           *)
windowPasses ==
  \E w \in Windows(placedOn) :
    LET r == recommend(w, placedOn) IN
    /\ verdict' = r.verdict /\ suggested' = r.suggestion
    /\ placedOn' = IF r.to = NoProfile THEN placedOn ELSE r.to
    /\ leftBehind' = IF r.to = NoProfile THEN leftBehind ELSE leftBehind \cup {placedOn}
    /\ moved' = IF r.to = NoProfile THEN moved ELSE r.verdict
    /\ UNCHANGED <<load, qualified, microVM, profiles, paused>>

registerSuggested ==
  /\ suggested # NoProfile /\ Cardinality(profiles) < MaxProfiles
  /\ profiles' = profiles \cup {suggested} /\ paused' = paused \ {suggested}
  /\ suggested' = NoProfile
  /\ UNCHANGED <<load, qualified, microVM, placedOn, leftBehind, verdict, moved>>

setPaused(p) ==
  /\ paused' = IF p \in paused THEN paused \ {p} ELSE paused \cup {p}
  /\ Cardinality(paused') <= MaxPaused
  /\ UNCHANGED <<load, qualified, microVM, profiles, placedOn, leftBehind, verdict, moved, suggested>>

RightsizeNext == windowPasses \/ registerSuggested \/ \E p \in profiles : setPaused(p)

RightsizeSpec == RightsizeInit /\ [][RightsizeNext]_sizeVars

(* Recommendations settle: a job whose work does not change never returns to  *)
(* a Profile it was moved from, is not told to grow again after it was told   *)
(* to shrink, and is never moved without enough runs or out of its family.    *)
SizesSettle ==
  /\ placedOn \notin leftBehind
  /\ ~(moved = "downsize" /\ verdict = "upsize")
  /\ leftBehind # {} => Cardinality(qualified) >= MinAttempts
  /\ \A p \in leftBehind : sameFamily(p, placedOn)
=============================================================================
