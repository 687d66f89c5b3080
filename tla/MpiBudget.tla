------------------------------ MODULE MpiBudget ------------------------------
(***************************************************************************)
(* How many MPI processes a task gets.  The backend decides at admission   *)
(* (runtime_release.py, mpi_budget): the configured number, or one if a    *)
(* domain is small, split into columns and rows that leave WRF ten grid    *)
(* points per direction.  The runner on the host (scripts/wrf.sh) decides  *)
(* again, from the number it is given and the domains it is told.          *)
(*                                                                         *)
(* A request is its domains, as pairs of grid dimensions, and the columns  *)
(* and rows of the namelist; Automatic stands for -1 and for a missing one. *)
(***************************************************************************)
EXTENDS Integers, FiniteSetsExt

Automatic == -1

\* The smallest side of a square that holds n processes, and isqrt.
Side(n) == CHOOSE k \in 0 .. n : k * k >= n /\ (k - 1) * (k - 1) < n
Isqrt(n) == CHOOSE k \in 0 .. n : k * k <= n /\ (k + 1) * (k + 1) > n

LargeEnough(domains, n) == \A d \in domains : d[1] >= 10 * Side(n) /\ d[2] >= 10 * Side(n)

Ranks(q, processes) == IF LargeEnough(q.domains, processes) THEN processes ELSE 1

\* The columns and rows: one that is given decides the other, with the nearest
\* to a square if neither is.
Split(q, ranks) ==
  CASE q.nx = Automatic /\ q.ny = Automatic ->
         LET nx == Max({k \in 1 .. Isqrt(ranks) : ranks % k = 0}) IN <<nx, ranks \div nx>>
    [] q.nx > 0 /\ q.ny = Automatic -> <<q.nx, ranks \div q.nx>>
    [] q.ny > 0 /\ q.nx = Automatic -> <<ranks \div q.ny, q.ny>>
    [] OTHER -> <<q.nx, q.ny>>

\* No error of mpi_budget: the split is one of all ranks, and every patch of
\* every domain has ten points each way.
Fits(q, ranks) ==
  LET s == Split(q, ranks) IN
  /\ s[1] > 0 /\ s[2] > 0 /\ s[1] * s[2] = ranks
  /\ \A d \in q.domains : d[1] \div s[1] >= 10 /\ d[2] \div s[2] >= 10

Admissible(q, processes) == Fits(q, Ranks(q, processes))

\* Mutant of RunnerRanks: the smallest domain with room for all is sent to one.
RunnerIsStrict(q, requested) ==
  LET we == Min({d[1] : d \in q.domains})
      sn == Min({d[2] : d \in q.domains})
  IN IF requested <= 1 \/ we <= 10 * Side(requested) \/ sn <= 10 * Side(requested) THEN 1 ELSE requested

\* select_safe_mpi_processes, given WRF_MPI_PROCESSES and the nested domains.
RunnerRanks(q, requested) ==
  LET we == Min({d[1] : d \in q.domains})
      sn == Min({d[2] : d \in q.domains})
  IN IF requested <= 1 \/ we < 10 * Side(requested) \/ sn < 10 * Side(requested) THEN 1 ELSE requested
=============================================================================
