------------------------------ MODULE MCDataAccess ------------------------------
EXTENDS StorageService, TLC

MCIds == 1 .. 2

MCMaxJobs == [Item |-> 2, StoredFile |-> 3]

Tx(create, update, delete) ==
    [a \in {"create", "update", "delete", "deleteMany"} |->
        CASE a = "create" -> create [] a = "update" -> update [] a = "delete" -> delete [] OTHER -> "none"]

App(host, chain, models, trackChanges, provider) ==
    [hosts |-> {host}, kept |-> IF host = "items" THEN {2} ELSE {}, gone |-> {}, chain |-> chain, models |-> models, exclude |-> {"AuditLog"},
     trackChanges |-> trackChanges, early |-> trackChanges, track |-> TRUE, provider |-> provider,
     tx |-> Tx("none", "interactive", "none"), audited |-> {"delete"}]

MCApps == {
    [App("items", <<"soft", "audit">>, {"Item"}, TRUE, "s3") EXCEPT !.gone = {1}, !.kept = {}],
    [App("items", <<"audit", "soft">>, Models, FALSE, "s3") EXCEPT !.tx = Tx("interactive", "none", "batch")],
    [App("items", <<"wrapped">>, {}, TRUE, "s3") EXCEPT !.tx = Tx("none", "interactive", "batch")],
    [App("items", <<"wrapped">>, {}, TRUE, "s3") EXCEPT !.tx = Tx("caught", "none", "none")],
    App("files", <<"soft", "audit">>, {"Item"}, FALSE, "local"),
    App("files", <<"audit", "soft">>, Models, FALSE, "firebase"),
    [App("files", <<"wrapped">>, {}, FALSE, "do_spaces") EXCEPT !.exclude = {"AuditLog", "StoredFile"}]}

MCSymmetry == Permutations(Requests) \cup Permutations(Users)
=============================================================================
