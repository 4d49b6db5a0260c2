----------------------------- MODULE VersionedItems ----------------------------
(* The event tables of the three CQRS solutions (02-cqrs-saga): DynamoDB     *)
(* tables with the aggregate as hash key and a version number as range key.  *)
(* The history of one aggregate is a function from version numbers to        *)
(* events, one item per version; nothing makes it contiguous.                *)
EXTENDS Naturals

\* What a query that has seen the versions up to k of a history returns.
View(history, k) == [v \in {u \in DOMAIN history : u <= k} |-> history[v]]

\* Fault: the next version instead of the last one.
NextVersion(history) ==
    IF DOMAIN history = {} THEN 0
    ELSE 1 + CHOOSE v \in DOMAIN history : \A u \in DOMAIN history : u <= v

\* get_current_version: the largest version, or 0 when there is no item.
CurrentVersion(history) ==
    IF DOMAIN history = {} THEN 0
    ELSE CHOOSE v \in DOMAIN history : \A u \in DOMAIN history : u <= v

\* What put_item leaves: an item with the same key is replaced.
WithItem(history, v, e) ==
    [u \in DOMAIN history \cup {v} |-> IF u = v THEN e ELSE history[u]]

================================================================================
