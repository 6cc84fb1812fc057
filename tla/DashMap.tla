------------------------------ MODULE DashMap ------------------------------
(***************************************************************************)
(* dashmap::DashMap as the gateway uses it: a partial function.  Each      *)
(* operator is one call; a call is atomic for the key it touches.          *)
(***************************************************************************)

(* insert: adds the entry or overwrites it. *)
Put(m, k, v) == [x \in DOMAIN m \cup {k} |-> IF x = k THEN v ELSE m[x]]

(* remove, and retain with the keys that its closure rejects. *)
Drop(m, ks) == [x \in DOMAIN m \ ks |-> m[x]]

(* if let Some(mut p) = m.get_mut(k) { p = v }: nothing if k is absent. *)
Modify(m, k, v) == IF k \in DOMAIN m THEN [m EXCEPT ![k] = v] ELSE m

EmptyMap == [x \in {} |-> {}]
=============================================================================
