----------------------------- MODULE Observers -----------------------------
(***************************************************************************)
(* One tool of the operators at a time beside the running deployment: a    *)
(* script, the dashboard or the load test.  Init chooses the tool, and for *)
(* verify_system.py the checks.                                            *)
(***************************************************************************)
EXTENDS Verify, Reconcile, CascadeReport, Dashboard, LoadShape

CONSTANTS
  Tools,   \* the tools
  Watched  \* bound: Watched[t]: the sets of services that may be looked at when tool t runs

ASSUME ObserversAssumption ==
  /\ Tools \subseteq {"verify", "reconcile", "cascade", "views", "chaos", "load"}
  /\ \A t \in Tools \ {"verify"} : Watched[t] \subseteq SUBSET Services

VARIABLE tool

vars == <<deploymentVars, verifyVars, reconcileVars, cascadeVars, chaosVars, viewVars, loadVars, tool>>

TypeOK ==
  /\ tool \in Tools
  /\ DeploymentTypeOK /\ VerifyTypeOK /\ ReconcileTypeOK /\ CascadeTypeOK
  /\ DashboardTypeOK /\ LoadTypeOK

Init ==
  /\ DeploymentInit
  /\ tool \in Tools
  /\ \E p \in Plans :
       /\ VerifyInit(p)
       /\ IF tool = "verify" THEN subscribed = p.services
          ELSE subscribed \in Watched[tool] /\ p = CHOOSE any \in Plans : TRUE
  /\ reviewers \in IF tool = "reconcile" THEN BOOLEAN ELSE {FALSE}
  /\ ReconcileInit /\ CascadeInit /\ DashboardInit /\ LoadInit

others(t) ==
  /\ t # "verify"    => UNCHANGED verifyVars
  /\ t # "reconcile" => UNCHANGED reconcileVars
  /\ t # "cascade"   => UNCHANGED cascadeVars
  /\ t # "views"     => UNCHANGED viewVars
  /\ t # "chaos"     => UNCHANGED chaosVars
  /\ t # "load"      => UNCHANGED loadVars
  /\ UNCHANGED tool

\* Everything of the deployment but what has been sent.
theRest == <<flowVars, choices, rowVars, spent, alerts, auditVars, tasks, hitches>>

Verifies   == tool = "verify"    /\ VerifyStep    /\ others("verify")    /\ UNCHANGED theRest
Reconciles == tool = "reconcile" /\ ReconcileStep /\ others("reconcile") /\ UNCHANGED theRest
Reports    == tool = "cascade"   /\ CascadeStep   /\ others("cascade")   /\ UNCHANGED theRest
Loads      == tool = "load"      /\ LoadStep      /\ others("load")      /\ UNCHANGED deploymentVars

Views      == tool = "views"     /\ ViewStep      /\ others("views")     /\ UNCHANGED theRest
Injects    == tool = "chaos"     /\ (\E r \in Chaos : ChaosStep(r)) /\ others("chaos")
                                 /\ UNCHANGED deploymentVars

\* A tool that has ended no longer looks, the load test and the chaos requests
\* never do: the deployment need not move then.
Ended ==
  \/ tool = "verify" /\ VerifyEnded
  \/ tool = "reconcile" /\ ReconcileEnded
  \/ tool = "cascade" /\ CascadeEnded
  \/ tool = "views" /\ ViewEnded
  \/ tool = "load" /\ LoadEnded

Moves == tool \notin {"load", "chaos"} /\ ~Ended /\ DeploymentNext /\ others("deployment")

Next == Moves \/ Verifies \/ Reconciles \/ Reports \/ Loads \/ Views \/ Injects

\* A script and a request make their calls one after another, and it is not an
\* error that has to end them; a test that is running keeps its clock.  (Only one of
\* the tools runs in a behaviour, so the fairness of each is that of all together.)
Continues ==
  \/ Verifies /\ step' # "died"
  \/ Reconciles /\ stage' # "died"
  \/ tool = "cascade" /\ Reports /\ section' # section
  \/ view # "none" /\ Views /\ view' # "500" /\ UNCHANGED posted
  \/ tool = "load" /\ tick /\ Loads

Fairness == WF_vars(Continues)

Spec == Init /\ [][Next]_vars /\ Fairness

-----------------------------------------------------------------------------
Begun == tool \in {"verify", "reconcile", "load"} \/ section # "start" \/ view # "none"

\* Every script ends, with a verdict or without one, and every view is answered,
\* however the deployment moves meanwhile: the polls are bounded, and so are the
\* scans, because the table grows only behind a bounded number of requests.
ToolsEnd == Begun ~> Ended
=============================================================================
