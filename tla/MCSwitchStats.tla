--------------------------- MODULE MCSwitchStats ---------------------------
(* Instances of SwitchStats for TLC. *)
EXTENDS SwitchStatsProps, TLC

CONSTANTS s1, s2, x1, x2, e1, e2

Entry(id, interval, threshold, ratio, errors) ==
    [key_id |-> id, time_interval |-> interval, request_threshold |-> threshold,
     succ_ratio |-> ratio, errcode_list |-> errors \cap Error]

KeyConfs ==
    [k \in Service \cup {x1} |->
        IF k = x1 THEN Entry(1, 2, 1, 0, {e1, e2})
        ELSE Entry(1, IF k = s2 THEN 0 ELSE 2, 2, 50, {e2})]

(* Services with one key_id, on one site; s2 has no interval. *)
Old == [route |-> [s \in Service |-> x1], sites |-> {x1}, keys |-> KeyConfs]

(* After the reload the services are on another site, and only s1 is a key of theirs. *)
New == [route |-> [s \in Service |-> x2], sites |-> {x2},
        keys |-> [k \in {s1, x2} |-> KeyConfs[IF k = x2 THEN x1 ELSE k]]]

NoReload  == <<Old>>
OneReload == <<Old, New>>

Symmetric == Permutations(Worker)
=============================================================================
