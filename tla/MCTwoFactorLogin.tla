--------------------------- MODULE MCTwoFactorLogin ---------------------------
EXTENDS TwoFactorLogin, TLC

CONSTANTS u1, u2, r1, r2, r3, s1, p1, p2

Route(public, roles, permissions, does) ==
  [public |-> public, roles |-> roles, permissions |-> permissions, does |-> does]

Read == <<"org", "read">>
Write == <<"org", "write">>

MCHandlers ==
  {Route(FALSE, {}, {}, "me"), Route(FALSE, {}, {}, "sessions"), Route(FALSE, {}, {}, "revoke"),
   Route(FALSE, {"admin"}, {}, "host"), Route(FALSE, {}, {Read, Write}, "host")}

MCRolePermissions == [admin |-> {<<"org", "*">>}, user |-> {Read, <<"user", "*">>}]

Symmetry == Permutations(Users) \cup Permutations(Requests)
            \cup Permutations(Passwords)
===============================================================================
