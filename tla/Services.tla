------------------------------ MODULE Services ------------------------------
(***************************************************************************)
(* The services of the backend that share no state with each other, checked *)
(* in one run: a behaviour exercises one of them, the part it drew at the  *)
(* start, so that their state spaces add up instead of multiplying.        *)
(***************************************************************************)
EXTENDS AbuseGuard, VodCache, ConnectionPool, Catalogue, Guide, Paging

VARIABLE part

vars == <<part, GuardVars, VodVars, PoolVars, CatalogueVars, GuideVars, PagingVars>>

Init ==
    /\ part \in {"guard", "vod", "pool", "catalogue", "guide", "paging"}
    /\ GuardInit /\ VodInit /\ PoolInit /\ CatalogueInit /\ GuideInit /\ PagingInit
    /\ part # "pool" => audits = [a \in Activations |-> 1]
    /\ part # "catalogue" => tool.installed /\ countries = {}
    /\ countries # {} => tool.installed         \* without ffprobe, from an empty table
    /\ part # "paging" => total = MaxRows /\ size = DEFAULT_SIZE

NotGuard == UNCHANGED <<part, VodVars, PoolVars, CatalogueVars, GuideVars, PagingVars>>
NotVod == UNCHANGED <<part, GuardVars, PoolVars, CatalogueVars, GuideVars, PagingVars>>
NotPool == UNCHANGED <<part, GuardVars, VodVars, CatalogueVars, GuideVars, PagingVars>>
NotCatalogue == UNCHANGED <<part, GuardVars, VodVars, PoolVars, GuideVars, PagingVars>>
NotGuide == UNCHANGED <<part, GuardVars, VodVars, PoolVars, CatalogueVars, PagingVars>>
NotPaging == UNCHANGED <<part, GuardVars, VodVars, PoolVars, CatalogueVars, GuideVars>>

Next ==
    \/ part = "guard" /\ GuardNext /\ NotGuard
    \/ part = "vod" /\ VodNext /\ NotVod
    \/ part = "pool" /\ PoolNext /\ NotPool
    \/ part = "catalogue" /\ CatalogueNext /\ NotCatalogue
    \/ part = "guide" /\ GuideNext /\ NotGuide
    \/ part = "paging" /\ PagingNext /\ NotPaging

(* Timeouts end every wait for a connection.  The scheduled check starts      *)
(* every five hours and works its queue off; whatever a check waits for, a   *)
(* probe or ffprobe, has a timeout; twelve hours pass for every row.  Nothing *)
(* is assumed of syncs, and of the panel's checks not even that they go on.  *)
Fairness ==
    /\ \A a \in Activations : WF_PoolVars(part = "pool" /\ PoolStep(a))
    /\ WF_CatalogueVars(part = "catalogue" /\ StartCheck(Cron))
    /\ WF_CatalogueVars(part = "catalogue" /\ TakeNext(Cron))
    /\ WF_CatalogueVars(part = "catalogue" /\ CheckEnds(Cron))
    /\ \A c \in Checks :
          WF_CatalogueVars(part = "catalogue" /\ \E p \in checks[c].probing : ProbeStep(c, p))
    /\ \A id \in Ids : WF_CatalogueVars(part = "catalogue" /\ HalfDay(id))

Spec == Init /\ [][Next]_vars /\ Fairness

\* State of every part is of its type.
ServicesTypeOK ==
    GuardTypeOK /\ VodTypeOK /\ PoolTypeOK /\ CatalogueTypeOK /\ GuideTypeOK /\ PagingTypeOK

\* In the part that has activations every one of them ends (ConnectionPool).
ActivationsAnswer == part = "pool" => EveryActivationAnswers
=============================================================================
