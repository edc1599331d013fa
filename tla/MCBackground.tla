---------------------------- MODULE MCBackground ----------------------------
(* Notifications, Recurrence and Attachments share no state, so a behaviour  *)
(* of the three together is a shuffle of one of each.  Here each behaviour   *)
(* moves one of them, and TLC checks the sum of their state spaces.          *)
EXTENDS Notifications, Recurrence, Attachments

CONSTANTS ann, bob

VARIABLE focus  \* the component that moves

mcVars == <<focus, vars, recurrenceVars, attachmentVars>>

\* Four events for one user; or one event for two users and one for the first.
MCWorkloads ==
    {[e \in Events |-> {ann}],
     [e \in Events |-> CASE e = 1 -> {ann, bob} [] e = 2 -> {ann} [] OTHER -> {}]}

MCInit ==
    /\ focus \in {"notifications", "recurrence", "attachments"}
    /\ Init
    /\ audience[3] # {} => digestOn[ann]  \* the longer workload is for a digest
    /\ focus # "notifications" => digestOn = [u \in Users |-> FALSE] /\ audience[3] = {}
    /\ RecurrenceInit /\ AttachmentsInit
    \* A file of any kind beside a clean document.
    /\ \A f \in Files : f # "f1" \/ focus # "attachments" =>
                         file[f] = [reply |-> "OK", media |-> FALSE]

MCNext ==
    /\ UNCHANGED focus
    /\ \/ /\ focus = "notifications" /\ Next
          /\ UNCHANGED <<recurrenceVars, attachmentVars>>
       \/ /\ focus = "recurrence" /\ RecurrenceNext
          /\ UNCHANGED <<vars, attachmentVars>>
       \/ /\ focus = "attachments" /\ AttachmentsNext
          /\ UNCHANGED <<vars, recurrenceVars>>

MCSpec ==
    MCInit /\ [][MCNext]_mcVars /\ Fairness /\ AttachmentsFairness

\* The state of every part is well typed.
MCTypeOK == TypeOK /\ RecurrenceTypeOK /\ AttachmentsTypeOK
=============================================================================
