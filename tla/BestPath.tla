------------------------------ MODULE BestPath ------------------------------
(***************************************************************************)
(* The best path computation of process.rs: the four comparisons and the   *)
(* scan of a prefix's paths at the top of run_recv_message_channel_loop.   *)
(* Its result is dropped there, so ProcessRib does not need it.            *)
(***************************************************************************)
EXTENDS Naturals, Sequences

CONSTANTS Unset,         \* an optional attribute that is None
          DefLocalPref,  \* default_local_preference
          LocalPrefs, Lengths, Meds,  \* values the attributes take
          OwnAS,         \* what is_my_asn_in_ebgp_path may find
          MaxPaths       \* bound: paths of the prefix

Origins == {"IGP", "EGP", "Incomplete"}
PeerTypes == {"Internal", "External"}

Route == [local_pref : LocalPrefs \cup {Unset}, number_of_as : Lengths,
          origin : Origins, med : Meds \cup {Unset}, own_as : OwnAS]

ASSUME BestPathConstants ==
  /\ DefLocalPref \in Nat /\ LocalPrefs \subseteq Nat
  /\ Lengths \subseteq Nat /\ Meds \subseteq Nat
  /\ Unset \notin Nat
  \* "error": to_u16 met an AS4 before our AS.
  /\ OwnAS \subseteq {"absent", "present", "error"}
  /\ MaxPaths \in Nat

-----------------------------------------------------------------------------
(* BestPathResult                                                          *)

\* Higher(a, b): the verdict of a candidate's a against the current path's b.
Higher(a, b) ==
  IF a = b THEN "Tie" ELSE IF a > b THEN "Candidate" ELSE "Current"

LocalPrefOf(r) == IF r.local_pref = Unset THEN DefLocalPref ELSE r.local_pref

CompareLocalPref(curr, cand) == Higher(LocalPrefOf(cand), LocalPrefOf(curr))

\* Mutant: a path of the same length is preferred, too.
CompareAsPathNoTie(curr, cand) ==
  IF cand.number_of_as <= curr.number_of_as THEN "Candidate" ELSE "Current"

CompareAsPath(curr, cand) == Higher(curr.number_of_as, cand.number_of_as)

Rank(origin) == CASE origin = "IGP" -> 0 [] origin = "EGP" -> 1
                  [] origin = "Incomplete" -> 2

CompareOrigin(curr, cand) == Higher(Rank(curr.origin), Rank(cand.origin))

\* Mutant: a missing MED ties with everything.
CompareMedMissingTies(curr, cand) ==
  IF cand.med = Unset \/ curr.med = Unset THEN "Tie"
  ELSE Higher(cand.med, curr.med)

\* compare_route_med: the higher MED wins, and any MED wins over none.
CompareMed(curr, cand) ==
  IF cand.med = Unset /\ curr.med = Unset THEN "Tie"
  ELSE IF curr.med = Unset THEN "Candidate"
  ELSE IF cand.med = Unset THEN "Current"
  ELSE Higher(cand.med, curr.med)

\* all_results
Results(curr, cand, peer_type) ==
  {CompareLocalPref(curr, cand), CompareAsPath(curr, cand),
   CompareOrigin(curr, cand)}
  \cup (IF peer_type = "Internal" THEN {CompareMed(curr, cand)} ELSE {})

\* The loop over all_results does not stop at the first that decides: one
\* CandidatePath among them is enough.
Contest(curr, cand, peer_type) ==
  IF peer_type = "External" /\ cand.own_as # "absent" THEN curr
  ELSE IF "Candidate" \in Results(curr, cand, peer_type) THEN cand ELSE curr

-----------------------------------------------------------------------------
(* The scan                                                                *)

VARIABLES paths,             \* all_paths_for_rt
          peer_type,         \* of the neighbor whose message asked for the scan
          seen,              \* how many candidates were looked at
          best_path,
          best_path_exists   \* computed once, before the loop

scanVars == <<paths, peer_type, seen, best_path, best_path_exists>>

ScanInit ==
  /\ paths \in UNION {[1..n -> Route] : n \in 1..MaxPaths}
  /\ peer_type \in PeerTypes
  /\ seen = 0
  /\ best_path = Unset
  /\ best_path_exists = (best_path # Unset)

\* best_path_exists is computed before the loop and never again: no two paths are
\* compared, and the last one received is what is left at the end.
Consider ==
  /\ seen < Len(paths)
  /\ seen' = seen + 1
  /\ best_path' = IF ~best_path_exists THEN paths[seen + 1]
                  ELSE Contest(best_path, paths[seen + 1], peer_type)
  /\ UNCHANGED <<paths, peer_type, best_path_exists>>

\* The result goes out of scope and the next prefix is popped.
Finish ==
  /\ seen = Len(paths)
  /\ seen' = 0
  /\ best_path' = Unset
  /\ UNCHANGED <<paths, peer_type, best_path_exists>>

ScanNext == Consider \/ Finish

ScanSpec == ScanInit /\ [][ScanNext]_scanVars

-----------------------------------------------------------------------------
(* Properties                                                              *)

\* Each comparison is a strict weak order: two paths compared either way round
\* give opposite verdicts, and preference and indifference are transitive.  So
\* each could decide a scan without its result depending on the order in which
\* the paths were received.
StrictWeakOrder(Compare(_, _), rs) ==
  /\ \A a, b \in rs :
       /\ Compare(a, b) = "Candidate" <=> Compare(b, a) = "Current"
       /\ Compare(a, b) = "Tie" <=> Compare(b, a) = "Tie"
  /\ \A a, b, c \in rs :
       /\ Compare(a, b) = "Candidate" /\ Compare(b, c) = "Candidate"
            => Compare(a, c) = "Candidate"
       /\ Compare(a, b) = "Tie" /\ Compare(b, c) = "Tie"
            => Compare(a, c) = "Tie"

ComparisonsAreOrders ==
  LET rs == {paths[i] : i \in DOMAIN paths} IN
  /\ StrictWeakOrder(CompareLocalPref, rs)
  /\ StrictWeakOrder(CompareAsPath, rs)
  /\ StrictWeakOrder(CompareOrigin, rs)
  /\ StrictWeakOrder(CompareMed, rs)

=============================================================================
