----------------------------- MODULE MCRelease -----------------------------
(***************************************************************************)
(* Release on small instances.  Two versions of a file are enough for one  *)
(* to be approved and the other to be found in its place.                  *)
(***************************************************************************)
EXTENDS Release, TLC

CONSTANTS p1, p2, b1, b2, c1, c2, c3, alice, bob, carol

\* Only alice plans.
ReviewerSymmetry == Permutations({bob, carol})

\* The first policy names a host, so its configuration follows the pins; the
\* second does not.
MCRender(p, s) == IF p = p2 THEN c2 ELSE IF s = 1 THEN c1 ELSE c3

\* p1 needs an exception under b1, which is valid on day 1 only; p2 violates b2.
MCPasses(p, s, b, t) ==
    /\ p = p1 /\ b = b1 => t = 1
    /\ p = p2 => b # b2

\* b1 asks for two approvals, b2 for one.
TwoOrOne(b) == IF b = b1 THEN 2 ELSE 1
One(b) == 1
NoApproval(b) == 0

NeverSigned(b) == FALSE
SignedUnderB1(b) == b = b1

\* Bounds on the search of ReleaseReview, which is about what comes before a
\* deployment: it ends where a configuration has been written or a deployment
\* refused, and goes up to two plans.
Logged(kind) == Cardinality({i \in 1..Len(log) : log[i].event = kind})
BeforeDeployment == destination = NoFile /\ Logged("deploy_refused") = 0
TwoPlans == Logged("plan") <= 2

\* The ways deploy is run.
Options == [to : BOOLEAN, run : BOOLEAN, dry : BOOLEAN, env : BOOLEAN]
ToFile == {s \in Options : s.to /\ ~s.run /\ ~s.dry /\ s.env}
ToFileAndRun == {s \in Options : s.to /\ s.run /\ ~s.dry /\ s.env}
AnyOutlet == {s \in Options : s.env /\ (s.dry => s.to /\ ~s.run)}
=============================================================================
