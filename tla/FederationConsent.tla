-------------------------- MODULE FederationConsent --------------------------
(***************************************************************************)
(* What an organisation is promised about taking part in federated         *)
(* learning (federated/local_state.py, api/routes/fl_local.py): a model    *)
(* leaves the house only while the organisation has opted in, and every    *)
(* membership starts without that consent, whatever an earlier one said.   *)
(***************************************************************************)
CONSTANT Rounds

VARIABLES standing, \* outside, a member, or a member that has opted in
          sent      \* open rounds a model was sent to under the present consent

cvars == <<standing, sent>>

CInit == standing = "outside" /\ sent = {}

Join    == standing = "outside" /\ standing' = "member" /\ UNCHANGED sent
Consent == standing = "member" /\ standing' = "consenting" /\ UNCHANGED sent
Withdraw == standing = "consenting" /\ standing' = "member" /\ sent' = {}
Depart   == standing # "outside" /\ standing' = "outside" /\ sent' = {}

Send(r) == standing = "consenting" /\ sent' = sent \cup {r} /\ UNCHANGED standing
End(r)  == sent' = sent \ {r} /\ UNCHANGED standing

CNext == \/ Join \/ Consent \/ Withdraw \/ Depart
         \/ \E r \in Rounds : Send(r) \/ End(r)

CSpec == CInit /\ [][CNext]_cvars
=============================================================================
