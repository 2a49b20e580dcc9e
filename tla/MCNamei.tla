------------------------------- MODULE MCNamei -------------------------------
(* Small instances of Namei for TLC.                                       *)
EXTENDS Namei

CONSTANTS su, user

MCPaths == {<<"a">>, <<"b">>, <<"a", "b">>, <<"a", "">>, <<".">>, <<"..">>}

(* The superuser makes and removes the directory the other task works in.  *)
MCCalls(t) ==
    IF t = su
    THEN {<<"mkdir", <<"a">>, <<>>>>, <<"mkdir", <<"a", "b">>, <<>>>>,
          <<"rmdir", <<"a">>, <<>>>>, <<"rmdir", <<".">>, <<>>>>,
          <<"unlink", <<"b">>, <<>>>>, <<"old", <<"b">>, <<"a", "b">>>>}
    ELSE {<<"creat", <<"b">>, <<>>>>, <<"excl", <<"a", "b">>, <<>>>>, <<"open", <<"a", "">>, <<>>>>,
          <<"unlink", <<"a", "b">>, <<>>>>, <<"chdir", <<"a", "">>, <<>>>>, <<"chdir", <<"..">>, <<>>>>}

(* Behaviours are followed up to the first hit.                            *)
UntilHit == hit = {}
=============================================================================
