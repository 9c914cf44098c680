----------------------------- MODULE MCSession ------------------------------
(* Instances of Session for TLC: two accounts, with or without autologin.   *)
EXTENDS Session

CONSTANTS ann, bob

MCUsers == {ann, bob}

Nobody == {NoUser}
OnlyAnn == {ann}
NobodyOrAnn == {NoUser, ann}

=============================================================================
