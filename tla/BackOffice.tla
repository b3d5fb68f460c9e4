----------------------------- MODULE BackOffice -----------------------------
(***************************************************************************)
(* Accounts, tasks and products behind one API: every service judges a     *)
(* request by the role that MAuthToken read, while another request may be  *)
(* changing that role.                                                     *)
(***************************************************************************)
EXTENDS Accounts, Tasks, Catalogue

vars == <<accounts, tokens, api, taskVars, catalogueVars>>

Init == ApiInit /\ TasksInit /\ CatalogueInit

\* A stretch of a handler between two awaits; only Accounts writes accounts.
Step(r) ==
  \/ AccountsStep(r) /\ UNCHANGED <<taskVars, catalogueVars>>
  \/ TasksStep(r) /\ UNCHANGED <<accounts, tokens, catalogueVars>>
  \/ CatalogueStep(r) /\ UNCHANGED <<accounts, tokens, taskVars>>
  \/ /\ Authenticate(r) \/ Rejected(r) \/ Invalid(r) \/ Aborted(r)
     /\ UNCHANGED <<accounts, tokens, taskVars, catalogueVars>>

Next == \E r \in Requests : Step(r)

Spec == Init /\ [][Next]_vars

-----------------------------------------------------------------------------
\* The roles under which a request may do what it asks for; an owner may
\* change a task whatever their role.
Entitled(r) ==
  {role \in Roles :
     /\ Permits(role, Kind(r))
     /\ Kind(r) \in {"updateTask", "deleteTask"} =>
          role = "superadmin" \/ seen[r].owner = Sender(r)}

\* Nobody acts on a role they had lost before they asked: every change that
\* a request has made was permitted by a role its sender has had since it
\* was sent, whatever the token says and whoever changes roles meanwhile.
EveryChangePermitted ==
  \A r \in Requests :
    At(r, "ok") /\ requests[r].token # Nothing => since[r] \cap Entitled(r) # {}

\* A name or a code is refused as taken, after it was found free, only
\* because a request that was in flight at the same time took it: who tries
\* again alone succeeds.
TakenByRival ==
  \A r \in Requests : At(r, "taken") =>
    \E s \in rivals[r] :
      /\ At(s, "ok") /\ Kind(s) = Kind(r)
      /\ Kind(r) = "register" => Name(s) = Name(r)
      /\ Kind(r) = "createProduct" => drawn[s] = drawn[r]
=============================================================================
