------------------------------- MODULE MCConnect -------------------------------
(* Instances of ConnectAttempt: two peers, two tracks, and one robot of each kind, with the keys. *)
EXTENDS ConnectAttempt

Robot(serves, mode, sealed, says) ==
    [serves |-> serves, mode |-> mode, sealed |-> sealed, wrapper |-> "pem", says |-> says]

\* Each auth mode, and a data1 too short to hold a public key.
Keyless ==
    {Robot("legacy", 0, "plain", "answer"), Robot("legacy", 0, "plain", "reject"),
     Robot("notify", 0, "plain", "answer"), Robot("notify", 2, "built-in", "answer"),
     Robot("notify", 7, "plain", "answer"),
     [Robot("notify", 0, "plain", "answer") EXCEPT !.wrapper = "short"]}

Keyed == Robot("notify", 3, "device", "answer")

\* A robot with a key is met with it, with another one, with one that is no key
\* and with none; a key that is no key is of no account where none is needed.
SomeMeetings ==
    (Keyless \X {"none"}) \cup ({Keyed} \X {"none", "malformed", "device", "foreign"})
      \cup {<<[Keyed EXCEPT !.says = "noise"], "device">>,
            <<Robot("notify", 2, "built-in", "answer"), "malformed">>}

TwoPeers == 1..2

=============================================================================
