---------------------------- MODULE AtomicFabric ----------------------------
(***************************************************************************)
(* What the web API promises of the devices' tables: requests are served   *)
(* one at a time, each changes only the tables it is about, one table at a *)
(* time, and every change is the request's edit of what the table holds at *)
(* that moment.  A request may leave tables out (it failed half-way).  Two *)
(* requests (NeedsKey) are written to go on with an empty table when       *)
(* theirs cannot be read; of them the promise is only that the edit is of  *)
(* the table or of an empty one.  The application keyset has one epoch     *)
(* key at a time, installed unchanged.                                     *)
(***************************************************************************)
EXTENDS FabricTables

VARIABLES
    held,      \* held[p]: what the table at p holds
    epochKey,  \* the stored epoch key, 0 before the first group
    op         \* the request being served, or the last one

vars == <<held, epochKey, op>>

\* The tables a request is about.
Tables(r) ==
    CASE r.kind \in {"create_binding", "delete_binding"} ->
            {Acl(r.light), Bindings(r.node, r.ep)}
      [] r.kind = "add_member" ->
            {KeySet(r.node), KeyMap(r.node), Acl(r.node), GroupTable(r.node)}
      [] r.kind = "remove_member" -> {KeyMap(r.node), Acl(r.node), GroupTable(r.node)}
      [] r.kind = "create_group_binding" ->
            {KeySet(r.node), KeyMap(r.node), GroupTable(r.node), Bindings(r.node, r.ep)}
      [] r.kind = "delete_group_binding" -> {GroupTable(r.node), Bindings(r.node, r.ep)}
      [] r.kind = "reset_groups" -> {KeySet(r.node), KeyMap(r.node), GroupTable(r.node)}
      [] r.kind = "reset_acl" -> {Acl(r.node)}
      [] OTHER -> {Bindings(r.node, r.ep)}

Init ==
    /\ held = Commissioned
    /\ epochKey = 0
    /\ op = NoRequest

\* The first key, or a new one because the stored one cannot be read.
MakeKey ==
    /\ epochKey' \in Nat \ {0}
    /\ UNCHANGED <<held, op>>

Serve(r) ==
    /\ NeedsKey(r) => epochKey # 0
    /\ op' = r
    /\ UNCHANGED <<held, epochKey>>

EditTable(p) ==
    /\ held' = [held EXCEPT ![p] = Edit(op, p, held[p], epochKey)]
    /\ UNCHANGED <<epochKey, op>>

RefillTable(p) ==
    /\ NeedsKey(op)
    /\ p.attr \in {"keymap", "bindings"}
    /\ held' = [held EXCEPT ![p] = Edit(op, p, {}, epochKey)]
    /\ UNCHANGED <<epochKey, op>>

Next ==
    \/ MakeKey
    \/ \E r \in Requests : Serve(r)
    \/ op # NoRequest /\ \E p \in Tables(op) : EditTable(p) \/ RefillTable(p)

Spec == Init /\ [][Next]_vars
=============================================================================
