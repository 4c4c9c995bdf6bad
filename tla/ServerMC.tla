------------------------------- MODULE ServerMC -------------------------------
EXTENDS Server, TLC

CONSTANTS page, script, a

R(route, id, body, sized) == [route |-> route, id |-> id, body |-> body, sized |-> sized]

Create  == R("create", NoId, "none", TRUE)
File    == R("append", a, "file", TRUE)
Unsized == R("append", a, "file", FALSE)
Advance == R("advance", a, "none", TRUE)
Destroy == R("destroy", a, "none", TRUE)
Garbage == R("garbage", NoId, "none", TRUE)

\* A page creates a stream and adds to it.  A script that does not wait for
\* answers plays or destroys the same stream, forgets the length of a request,
\* or sends what is not HTTP.
MCScripts ==
    (page :> {<<Create, File>>})
 @@ (script :> {<<Advance, Create>>, <<Destroy>>, <<Unsized, Garbage>>})
=============================================================================
