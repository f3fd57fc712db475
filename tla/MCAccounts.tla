---------------------------- MODULE MCAccounts ----------------------------
(* Two users, of whom both, one or none is there at first, and the calls    *)
(* that meet in the interesting ways: logins with the old, the new and a    *)
(* wrong password, a reset, mutual demotion and deletion, setup, tokens and *)
(* commands.                                                                *)
EXTENDS Accounts, TLC

Blank == [via |-> "basic", name |-> "ann", pw |-> "p", op |-> "login",
          id |-> 0, about |-> "ann", role |-> "readonly", fresh |-> "p", admin |-> FALSE]

Basic(n, p, op) == [Blank EXCEPT !.name = n, !.pw = p, !.op = op]
On(c, u) == [c EXCEPT !.id = u]

MCCalls == {
    Basic("bob", "p", "login"), Basic("bob", "n", "login"),
    [On(Basic("ann", "p", "reset"), 2) EXCEPT !.fresh = "n"],
    On(Basic("ann", "p", "role"), 2), On(Basic("bob", "p", "delete"), 1),
    [On(Basic("ann", "p", "token"), 2) EXCEPT !.admin = TRUE],
    Basic("ann", "p", "revoke"),
    [Basic("ann", "p", "create") EXCEPT !.about = "bob"],
    [Blank EXCEPT !.via = "session", !.op = "logout"],
    On([Blank EXCEPT !.via = "session", !.op = "role"], 1),
    On([Blank EXCEPT !.via = "token", !.op = "delete"], 1),
    [Blank EXCEPT !.via = "nothing", !.op = "setup", !.about = "ann"],
    [Blank EXCEPT !.via = "nothing", !.op = "setup", !.about = "bob"],
    [Blank EXCEPT !.via = "cli", !.op = "promote", !.about = "bob", !.fresh = "n"],
    [Blank EXCEPT !.via = "cli", !.op = "role", !.about = "ann"],
    [Blank EXCEPT !.via = "cli", !.op = "reset", !.about = "bob", !.fresh = "n"],
    [Blank EXCEPT !.via = "cli", !.op = "delete", !.about = "bob"],
    [Blank EXCEPT !.via = "cli", !.op = "create", !.about = "bob"]}

Row(n, role) == [name |-> n, hash |-> [pw |-> "p", salt |-> "first"], role |-> role]
MCFounded == {<<>>, <<Row("ann", "admin"), Row("bob", "admin")>>}

Alike == Permutations(Requests)
=============================================================================
