-------------------------- MODULE MCPortalSession --------------------------
(* PortalSession for an employee a, an auditor b and a super admin c. *)
EXTENDS PortalSession
CONSTANTS a, b, c, t1, t2
MCRole == [x \in Account |-> CASE x = a -> "employee" [] x = b -> "auditor" [] x = c -> "super_admin"]
=============================================================================
