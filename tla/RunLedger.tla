------------------------------ MODULE RunLedger ------------------------------
(***************************************************************************)
(* What the stored history of Studio runs promises, whatever jobs, threads *)
(* and processes do: an id gets one record, its providers are paid at most *)
(* once and never before the record exists, and the record settles once.   *)
(* (The lifecycle of backend/sql/algorithm_lab_runs.sql as lab_runs.py     *)
(* writes it.)                                                             *)
(***************************************************************************)
EXTENDS Naturals

CONSTANT Keys

VARIABLES record, paid

ledger == <<record, paid>>

LedgerInit ==
  /\ record = [k \in Keys |-> "absent"]
  /\ paid = [k \in Keys |-> 0]

\* INSERT of a running row
Open(k) ==
  /\ record[k] = "absent"
  /\ record' = [record EXCEPT ![k] = "running"]
  /\ UNCHANGED paid

\* execute_run; a row may already be marked cancelled when a stopped turn gets here
Pay(k) ==
  /\ record[k] # "absent" /\ paid[k] = 0
  /\ paid' = [paid EXCEPT ![k] = 1]
  /\ UNCHANGED record

\* UPDATE ... WHERE status = 'running'; only a paid run completes
Settle(k, status) ==
  /\ record[k] = "running"
  /\ status = "completed" => paid[k] = 1
  /\ record' = [record EXCEPT ![k] = status]
  /\ UNCHANGED paid

LedgerNext == \E k \in Keys : Open(k) \/ Pay(k) \/ \E s \in {"completed", "failed"} : Settle(k, s)

LedgerSpec == LedgerInit /\ [][LedgerNext]_ledger
=============================================================================
