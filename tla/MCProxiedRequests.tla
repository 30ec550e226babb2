-------------------------- MODULE MCProxiedRequests --------------------------
(* Two processors, and a third one for the settings to be read once more. *)
EXTENDS ProxiedRequests

CONSTANTS q1, q2, q3, p1, p2, h1, h2, direct, nothing

\* All URLs are on one host, or the even ones on another.
OneHost == [r \in Queue \X Url |-> h1]
TwoHosts == [r \in Queue \X Url |-> IF r[2] % 2 = 1 THEN h1 ELSE h2]

One == [q \in Queue |-> 1]
Two == [q \in Queue |-> 2]
TwoAndOne == [q \in Queue |-> IF q = q1 THEN 2 ELSE 1]

OneProxy == {{p1}}
OtherProxy == {{p2}}
TwoProxies == {{p1}, {p2}}
=============================================================================
