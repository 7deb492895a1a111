--------------------------- MODULE MCMessageJobs ---------------------------
(* The PuppeteerService of MessageModule: only sendMessage jobs run on it. *)
EXTENDS PuppeteerService, TLC

CONSTANTS m1, m2, l1, l2

MCJobs      == {m1, m2}
MCLeads     == {l1, l2}
MCKind      == [j \in MCJobs |-> "sendMessage"]
MCLeadOf    == (m1 :> l1) @@ (m2 :> l2)
MCSourceOf  == (m1 :> "chat") @@ (m2 :> "email")
MCAddressed == {m1}
MCSubject   == (m1 :> 0) @@ (m2 :> 1)
MCRefusing  == {m2}
MCNoPages   == {}
=============================================================================
