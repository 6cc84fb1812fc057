------------------------------ MODULE PoolView ------------------------------
(***************************************************************************)
(* The pool as the selection of a proxy sees it, and every way in which it *)
(* can change under a connection that is looking at it.  A proxy that is   *)
(* not Failed has no circuit (ProxyPool!PoolConsistent), so is_available   *)
(* never decides anything in select_best, whose three tiers are the other  *)
(* statuses: the status, the TLS verdict and the country are what is left. *)
(*                                                                         *)
(* ProxyPool implements this specification, and Transparent runs in it.    *)
(***************************************************************************)
EXTENDS DashMap

CONSTANTS
  Keys,       \* host:port of every proxy that any source may list
  Countries   \* country codes that GeoIP can report

VARIABLES
  view,    \* key -> what is seen of the proxy, for the keys in the pool
  aside    \* <<key, what is seen>>: taken out by the API, may be put back

viewVars == <<view, aside>>

(* Unchecked stands for Some(Unchecked) and None, which no one tells apart;
   clean for tls_clean == Some(true).                                       *)
ViewRecord ==
  [status  : {"Verified", "PresumedAlive", "Unchecked", "Failed"},
   clean   : BOOLEAN,
   country : Countries \cup {"None"}]

NewView == [status |-> "Unchecked", clean |-> FALSE, country |-> "None"]

(* load_state makes no proxy Verified or Failed. *)
LoadedViews ==
  {v \in ViewRecord : v.status \in {"PresumedAlive", "Unchecked"}}

VInit ==
  /\ DOMAIN view \subseteq Keys
  /\ \A k \in DOMAIN view : view[k] \in LoadedViews
  /\ aside = {}

-----------------------------------------------------------------------------
(* A source or an operator adds a proxy, over the one that is there if so. *)
Appears(k) ==
  /\ view' = Put(view, k, NewView)
  /\ aside' = aside

(* ban_proxy takes a proxy out; unban_proxy puts it back as it was, over the
   one that is there if so.                                                 *)
Banned(k) ==
  /\ k \in DOMAIN view
  /\ aside' = aside \cup {<<k, view[k]>>}
  /\ view' = Drop(view, {k})

Returns(k, v) ==
  /\ <<k, v>> \in aside
  /\ view' = Put(view, k, v)
  /\ aside' \in {aside, aside \ {<<k, v>>}}

(* A record that was set aside is overwritten by another one of its key. *)
Discards ==
  /\ aside' \in SUBSET aside
  /\ view' = view

(* cleanup_stale drops only proxies that never worked. *)
Forgotten(k) ==
  /\ k \in DOMAIN view
  /\ view[k].status \in {"Unchecked", "Failed"}
  /\ view' = Drop(view, {k})
  /\ aside' = aside

-----------------------------------------------------------------------------
Sees(k, v) ==
  /\ view' = Modify(view, k, v)
  /\ aside' = aside

(* record_success *)
Works(k) == Sees(k, [view[k] EXCEPT !.status = "Verified"])

(* record_fail: from some number of failures on, the proxy is Failed. *)
FailsOnce(k) ==
  \/ UNCHANGED viewVars
  \/ k \in DOMAIN view /\ Sees(k, [view[k] EXCEPT !.status = "Failed"])

(* set_tls_clean *)
Judged(k, verdict) == Sees(k, [view[k] EXCEPT !.clean = verdict])

(* spawn_geoip_lookup *)
Located(k, c) == Sees(k, [view[k] EXCEPT !.country = c])

VNext ==
  \/ Discards
  \/ \E x \in aside : Returns(x[1], x[2])
  \/ \E k \in Keys :
       \/ Appears(k) \/ Banned(k) \/ Forgotten(k)
       \/ Works(k) \/ FailsOnce(k)
       \/ \E verdict \in BOOLEAN : Judged(k, verdict)
       \/ \E c \in Countries : Located(k, c)

VSpec == VInit /\ [][VNext]_viewVars
=============================================================================
