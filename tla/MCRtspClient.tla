------------------------------ MODULE MCRtspClient ------------------------------
(***************************************************************************)
(* Cameras and URLs for TLC: a camera with everything left out of its URL,  *)
(* one with every part at its longest, one with an "@" in its path, one     *)
(* whose session id is too long; and every text of a few tokens after       *)
(* "rtsp://", most of which are not URLs.                                   *)
(***************************************************************************)
EXTENDS RtspClient

Rtsp == Word("rtsp", 4)
Colon == Sep(":")
Slash == Sep("/")
AtSign == Sep("@")
Host(name) == Word(name, 8)

\* A body with a blank line in it, as long as the rest of a response.
Body == << <<"body", 1>>, Cr, Lf, Cr, Lf, <<"body", 2>> >>

Camera(address, user, password, host, port, path, challenges, id, timeout, body) ==
    [url |-> <<Rtsp>> \o Slashes \o address, scheme |-> <<Rtsp>>, user |-> user,
     password |-> password, host |-> host, port |-> port, path |-> path,
     challenges |-> challenges, session |-> id, timeout |-> timeout, body |-> body]

Basic == Word("Basic", 20)
LongestPath == <<Slash, Word("p", 249), AtSign, Word("q", 2), Colon, Slash>>

MCCameras ==
    LET u == Word("user", 63)  pw == Word("secret", 63)
        longest == <<Word("h", 127)>>
    IN { Camera(<<Host("a")>>, <<>>, <<>>, <<Host("a")>>, 554, <<Slash>>,
                <<>>, Word("s", 8), 0, Body),
         Camera(<<u, Colon, pw, AtSign, Host("b"), Colon, Digits(8554, 4), Slash, Word("x", 3), AtSign, Word("y", 2)>>,
                <<u>>, <<pw>>, <<Host("b")>>, 8554, <<Slash, Word("x", 3), AtSign, Word("y", 2)>>,
                <<Word("Digest", 600), Basic>>, Word("s", 63), 60, <<>>),
         Camera(<<Word("user", 4), AtSign, Host("c"), Slash, Word("z", 4)>>,
                <<Word("user", 4)>>, <<>>, <<Host("c")>>, 554, <<Slash, Word("z", 4)>>,
                <<Basic>>, Word("s", 64), 60, <<>>),
         Camera(longest \o <<Colon, Digits(65535, 5)>> \o LongestPath,
                <<>>, <<>>, longest, 65535, LongestPath, <<>>, Word("s", 27), 0, <<>>),
         Camera(longest \o <<Colon, Digits(1, 1)>> \o LongestPath,
                <<>>, <<>>, longest, 1, LongestPath, <<>>, Word("s", 28), 0, <<>>) }

\* The requests of the fourth camera just fit, those of the fifth just do not.
MCRoom == 505

Tokens == {Colon, Slash, AtSign, Host("nowhere"), Word("long", 64), Digits(554, 3), Digits(0, 1),
           Digits(70000, 5)}

\* ... and two that reach a camera with the wrong password or path.
MCUrls ==
    LET Short(k) == UNION {[1 .. n -> Tokens] : n \in 0 .. k}
    IN  {<<Rtsp>> \o Slashes \o s : s \in Short(4)}
        \cup {p \o s : p \in {<<>>, <<Word("scheme", 8)>> \o Slashes, <<Rtsp, Slash, Colon>>},
                       s \in Short(3)}
        \cup {<<Rtsp>> \o Slashes \o address : address \in
                  { <<Word("user", 4), Colon, Word("no", 2), AtSign, Host("c"), Slash, Word("z", 4)>>,
                    <<Host("a"), Slash, Word("z", 4)>> }}
        \cup {<<Rtsp>> \o Slashes \o user \o <<Host("nowhere")>> \o port \o path :
                  user \in {<<w, Colon, v, AtSign>> : w, v \in {Word("u", 63), Word("u", 64)}},
                  port \in {<<>>, <<Colon, Digits(65535, 5)>>, <<Colon, Digits(65536, 5)>>,
                            <<Colon, Digits(5, 1), Digits(53, 5)>>},
                  path \in {<<>>, <<Slash, Word("p", 254)>>, <<Slash, Word("p", 255)>>}}

=============================================================================
