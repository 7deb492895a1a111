----------------------------- MODULE MCLeadJobs -----------------------------
(* The PuppeteerService of LeadsModule: getLead and getLeadSources jobs. *)
EXTENDS PuppeteerService, TLC

CONSTANTS g, s, l1, l2

MCJobs      == {g, s}
MCLeads     == {l1, l2}
MCKind      == (g :> "getLead") @@ (s :> "getLeadSources")
MCLeadOf    == (g :> l1) @@ (s :> l2)
MCSourceOf  == [j \in MCJobs |-> "chat"]
MCAddressed == {}
MCSubject   == [j \in MCJobs |-> 0]
MCLoggedOut == {g}
MCFramed    == {s}
MCNoPages   == {}
=============================================================================
