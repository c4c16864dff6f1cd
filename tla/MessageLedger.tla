---------------------------- MODULE MessageLedger ----------------------------
(***************************************************************************)
(* What a conversion job promises about every source file, whatever the    *)
(* process, its crashes and its restarts do: the record of a file is       *)
(* written only after what it records is in the PST, is written once, and  *)
(* nothing is saved or deleted for a file once its record is written.      *)
(* Records of several files may be written together (a batch).             *)
(*                                                                         *)
(* This is the abstract specification that ImportPipeline implements.      *)
(***************************************************************************)
CONSTANT Row

VARIABLES
  status,  \* status[r]: the durable record of file r
  held     \* held[r]: what the PST holds for r

ledgerVars == <<status, held>>

LedgerStatus == {"PENDING", "IMPORTED", "PRESERVED_AS_ATTACHMENT",
                 "FAILED_SOURCE_READ", "FAILED_MAPI"}

\* A converted message in the file's folder, or the original attached to a
\* message in "_Conversion Errors".
Held == {"message", "attachment"}

LedgerTypeOK ==
  /\ status \in [Row -> LedgerStatus]
  /\ held \in [Row -> SUBSET Held]

LedgerInit ==
  /\ status = [r \in Row |-> "PENDING"]
  /\ held = [r \in Row |-> {}]

\* May s be recorded for a file of which the PST holds h?
Justified(s, h) ==
  /\ s \in LedgerStatus
  /\ s = "IMPORTED" => "message" \in h
  /\ s = "PRESERVED_AS_ATTACHMENT" => "attachment" \in h

Save(r) ==
  /\ status[r] = "PENDING"
  /\ \E h \in Held : held' = [held EXCEPT ![r] = @ \cup {h}]
  /\ UNCHANGED status

\* The integrity gate takes back a converted message.
Discard(r) ==
  /\ status[r] = "PENDING"
  /\ held' = [held EXCEPT ![r] = @ \ {"message"}]
  /\ UNCHANGED status

Record ==
  /\ DOMAIN status' = Row
  /\ status' = [r \in Row |-> status'[r]]
  /\ \A r \in Row : status'[r] # status[r] =>
       status[r] = "PENDING" /\ Justified(status'[r], held[r])
  /\ UNCHANGED held

LedgerNext == Record \/ \E r \in Row : Save(r) \/ Discard(r)

LedgerSpec == LedgerInit /\ [][LedgerNext]_ledgerVars
=============================================================================
