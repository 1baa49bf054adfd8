------------------------------- MODULE Feeds -------------------------------
(***************************************************************************)
(* What the backend reports of services outside it: the sanctions dataset  *)
(* the compliance service screens with (services/compliance.ts), exchange  *)
(* rates (services/fx.ts) and its own readiness (services/readiness.ts).   *)
(* An answer is made at one moment and judged at a later one, when it has  *)
(* arrived.  The sanctions database (crates/noblepay-compliance) reloads   *)
(* two files into three cells, each behind a lock of its own.              *)
(***************************************************************************)
EXTENDS Requests

CONSTANTS
    LastHour,       \* bound: hours that pass
    MaxAge,         \* SANCTIONS_MAX_AGE and FX_ORACLE_MAX_AGE of the backend
    EngineMaxAge    \* SANCTIONS_MAX_AGE_HOURS of the service

ASSUME FeedAssumption == {LastHour, MaxAge, EngineMaxAge} \subseteq Nat

VARIABLES
    hour,
    dataset, digest,    \* the dataset on disk, and the one its digest is of
    vouched,            \* history: datasets the digest on disk has been of
    engine,             \* the cells: lists, last_updated and metadata
    refreshes,          \* per worker the refresh its update runs in the service
    crossed,            \* history: two updates were in service at a time
    evaluating          \* no compliance service, and that was acknowledged

feedVars == <<hour, dataset, digest, vouched, engine, refreshes, crossed, evaluating>>

Datasets == [at : 0..LastHour, whole : BOOLEAN]
First == [at |-> 0, whole |-> TRUE]
NoRefresh == [at |-> "idle"]

FeedInit ==
    /\ hour = 0 /\ dataset = First /\ digest = First /\ vouched = {First}
    /\ engine = [lists |-> First, stamps |-> First, metadata |-> First]
    /\ refreshes = [w \in Workers |-> NoRefresh] /\ crossed = FALSE
    /\ evaluating \in BOOLEAN

FeedTypeOK ==
    /\ hour \in 0..LastHour
    /\ {dataset, digest} \subseteq Datasets
    /\ engine \in [{"lists", "stamps", "metadata"} -> Datasets]

Old(at) == hour - at > MaxAge
Lives(w, step) == refreshes[w].at = step

----------------------------------------------------------------------------
(* The world outside. *)

HourPasses ==
    /\ hour < LastHour /\ hour' = hour + 1
    /\ UNCHANGED <<shared, dataset, digest, vouched, engine, refreshes, crossed, evaluating>>

\* The provider replaces the dataset, then its digest (bound: once an hour).
PublishFile ==
    /\ dataset.at < hour
    /\ \E whole \in BOOLEAN : dataset' = [at |-> hour, whole |-> whole]
    /\ UNCHANGED <<shared, hour, digest, vouched, engine, refreshes, crossed, evaluating>>

PublishDigest ==
    /\ digest' = dataset /\ vouched' = vouched \cup {dataset}
    /\ UNCHANGED <<shared, hour, dataset, engine, refreshes, crossed, evaluating>>

----------------------------------------------------------------------------
(* The service: refresh_configured. *)

Refresh(w, r) ==
    /\ refreshes' = [refreshes EXCEPT ![w] = r]
    /\ UNCHANGED <<shared, hour, dataset, digest, vouched, crossed, evaluating>>

ReadDataset(w) ==
    /\ Lives(w, "read")
    /\ Refresh(w, [at |-> "check", data |-> dataset]) /\ UNCHANGED engine

\* Mutant: the digest is not compared with the dataset read before it
Undigested(data) == data.whole /\ hour - data.at <= EngineMaxAge

Loadable(data) == data = digest /\ data.whole /\ hour - data.at <= EngineMaxAge

CheckDataset(w) ==
    /\ Lives(w, "check")
    /\ Refresh(w, IF Loadable(refreshes[w].data) THEN [refreshes[w] EXCEPT !.at = "lists"]
                  ELSE [at |-> "refused"])
    /\ UNCHANGED engine

PublishCell(w) ==
    \E cell \in DOMAIN engine :
        /\ Lives(w, cell)
        /\ engine' = [engine EXCEPT ![cell] = refreshes[w].data]
        /\ Refresh(w, [refreshes[w] EXCEPT
                         !.at = CASE cell = "lists" -> "stamps" [] cell = "stamps" -> "metadata"
                                  [] cell = "metadata" -> "acknowledged"])

\* The service starts anew, from the files.
RestartService ==
    /\ Loadable(dataset)
    /\ engine' = [cell \in DOMAIN engine |-> dataset]
    /\ refreshes' = [w \in Workers |-> NoRefresh]
    /\ UNCHANGED <<shared, hour, dataset, digest, vouched, crossed, evaluating>>

----------------------------------------------------------------------------
(* The backend: updateSanctionsList, getSanctionsStatus and the probe.     *)

\* A request about the sanctions data: what it was asked for, and what it read.
Query(purpose) ==
    [at |-> "health", for |-> purpose, asked |-> 0, stamps |-> First, metadata |-> First,
     compliance |-> "unavailable"]

Updating(v) == ~Lives(v, "idle") \/ (req[v] # Idle /\ req[v].for = "update")
Proceed(w, r) == Goto(w, r) /\ UNCHANGED <<mined, deep, trail>>
Keep == UNCHANGED <<hour, dataset, digest, vouched, engine, evaluating>>

\* asked is the dataset that is in place when the update is asked for.
AskUpdate(w) ==
    /\ req[w] = Idle /\ Lives(w, "idle") /\ ~evaluating
    /\ Proceed(w, [Query("update") EXCEPT !.at = "refresh", !.asked = IF Loadable(dataset) THEN dataset.at ELSE 0])
    /\ refreshes' = [refreshes EXCEPT ![w] = [at |-> "read"]]
    /\ crossed' = (crossed \/ \E v \in Workers : Updating(v))
    /\ Keep

\* A caller that gave up leaves its refresh running.
Acknowledged(w) ==
    /\ refreshes[w].at \in {"acknowledged", "refused"}
    /\ refreshes' = [refreshes EXCEPT ![w] = NoRefresh]
    /\ IF At(w, "refresh")
       THEN Proceed(w, IF Lives(w, "refused") THEN Idle ELSE [req[w] EXCEPT !.at = "health"])
       ELSE UNCHANGED shared
    /\ UNCHANGED crossed /\ Keep

\* The sanctions status is the readiness probe's answer, told to a caller; the
\* service's health_check reads its cells one after the other.
HealthStamps(w) ==
    /\ At(w, "health")
    /\ engine.lists.whole /\ hour - engine.metadata.at <= EngineMaxAge
    /\ Proceed(w, [req[w] EXCEPT !.at = "metadata", !.stamps = engine.stamps])
    /\ UNCHANGED feedVars

HealthMetadata(w) ==
    /\ At(w, "metadata")
    /\ Proceed(w, [req[w] EXCEPT !.at = "judge", !.metadata = engine.metadata])
    /\ UNCHANGED feedVars

\* Mutant: only the service's word for its freshness
ServiceFresh(w) == TRUE

\* validateSanctionsMetadata, on the answer that arrived.
Validated(w) == ~Old(req[w].stamps.at) /\ ~Old(req[w].metadata.at)

Judge(w) ==
    /\ At(w, "judge") /\ Validated(w)
    /\ Proceed(w, CASE req[w].for = "update" ->
                      [at |-> "audit", for |-> "update",
                       entry |-> [event |-> "SANCTIONS_UPDATED", asked |-> req[w].asked, judged |-> hour,
                                  named |-> req[w].metadata, stamps |-> req[w].stamps,
                                  served |-> engine.lists, crossed |-> crossed]]
                 [] req[w].for = "readiness" ->
                      [Query("readiness") EXCEPT !.at = "probed", !.compliance = "ready"])
    /\ UNCHANGED feedVars

----------------------------------------------------------------------------
(* runReadinessChecks: what is not ready in time is unavailable.           *)

\* Mutant: a service nobody configured counts as a service that answers
AnyReady == "ready"

Unconfigured == "evaluation-unconfigured"

AskReadiness(w) ==
    /\ req[w] = Idle
    /\ Proceed(w, IF evaluating
               THEN [Query("readiness") EXCEPT !.at = "probed", !.compliance = Unconfigured]
               ELSE Query("readiness"))
    /\ UNCHANGED feedVars

Settled(w) ==
    /\ req[w] # Idle /\ req[w].for = "readiness" /\ ~At(w, "settled")
    /\ \E answered \in BOOLEAN :     \* of all the other dependencies
          Proceed(w, [at |-> "settled", for |-> "readiness", compliance |-> req[w].compliance,
                   ready |-> answered /\ req[w].compliance # "unavailable"])
    /\ UNCHANGED feedVars

----------------------------------------------------------------------------
(* getRates: the oracle answers with a rate as old as it likes.            *)

AskRates(w) ==
    /\ req[w] = Idle
    /\ \E rate \in 0..hour : Proceed(w, [at |-> "rates", for |-> "rates", asked |-> hour, rate |-> rate])
    /\ UNCHANGED feedVars

\* Mutant: the age is taken from the moment the rates were asked for
FreshWhenAsked(w) == req[w].asked - req[w].rate <= MaxAge

FreshOnArrival(w) == ~Old(req[w].rate)

RatesArrive(w) ==
    /\ At(w, "rates") /\ FreshOnArrival(w)
    /\ Proceed(w, [at |-> "quoted", for |-> "rates", age |-> hour - req[w].rate])
    /\ UNCHANGED feedVars

FeedNext ==
    \/ HourPasses \/ PublishFile \/ PublishDigest \/ RestartService
    \/ \E w \in Workers :
          \/ ReadDataset(w) \/ CheckDataset(w) \/ PublishCell(w) \/ AskUpdate(w) \/ Acknowledged(w)
          \/ HealthStamps(w) \/ HealthMetadata(w) \/ Judge(w) \/ AskReadiness(w)
          \/ Settled(w) \/ AskRates(w) \/ RatesArrive(w)
    \/ RequestStep /\ UNCHANGED feedVars

----------------------------------------------------------------------------
(* Property. *)

\* An update is reported only of a dataset that is whole, was once on disk with
\* its own digest, and was fresh by the backend's limit when the health re-read
\* after the refresh arrived; as long as no two updates ever crossed, that
\* dataset is no older than the one in place when the update was asked for, and
\* the service screens with it or a later one.  Readiness never calls a
\* compliance service ready that nobody configured, and no rate is handed out
\* past its age, however slow the oracle.
FeedsTrue ==
    /\ \A e \in {e \in trail : e.event = "SANCTIONS_UPDATED"} :
          /\ e.named.whole /\ e.named \in vouched
          /\ e.judged - e.named.at <= MaxAge /\ e.judged - e.stamps.at <= MaxAge
          /\ e.crossed \/ (e.asked <= e.named.at /\ e.named.at <= e.served.at)
    /\ \A w \in Workers :
          /\ At(w, "settled") /\ evaluating => req[w].compliance # "ready"
          /\ At(w, "quoted") => req[w].age <= MaxAge
=============================================================================
