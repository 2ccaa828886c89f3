----------------------------- MODULE MCRequests -----------------------------
(***************************************************************************)
(* Instances of Requests for TLC.  Every scene gives its requests a job;   *)
(* b1 and b2 are behind one address.                                       *)
(***************************************************************************)
EXTENDS Requests, TLC

CONSTANTS r1, r2, r3, r4, b1, b2, u1, u2, a1

Square == <<5000, 5000>>
Thin == <<1, 25000000>>
Huge == <<5001, 5000>>
Flat == <<200000, 125>>
Empty == <<0, 5>>

Ours(b, kind) ==
  [kind |-> kind, by |-> b, origin |-> "ours", referer |-> "none", large |-> FALSE,
   of |-> None, user |-> None, ip |-> a1, form |-> "good", image |-> Square]

Start(b, u) == [Ours(b, "start") EXCEPT !.user = u]
Back(b, r) == [Ours(b, "callback") EXCEPT !.of = r]
Contact(b, ip, form) == [Ours(b, "contact") EXCEPT !.ip = ip, !.form = form]
Picture(b, i) == [Ours(b, "upload") EXCEPT !.image = i]

\* Log in, ask and log out, in any order the browser can.
InAndOut ==
  (r1 :> Start(b1, u1)) @@ (r2 :> Back(b1, r1)) @@ (r3 :> Ours(b1, "logout"))
    @@ (r4 :> Ours(b1, "me"))

\* Two tabs of a browser, and a callback that another browser opens.
TwoTabs ==
  (r1 :> Start(b1, u1)) @@ (r2 :> Start(b1, None)) @@ (r3 :> Back(b1, r1))
    @@ (r4 :> Back(b1, r2))
OpenedTwice ==
  (r1 :> Start(b1, u1)) @@ (r2 :> Back(b1, r1)) @@ (r3 :> Back(b1, r1))
    @@ (r4 :> Back(b2, r1))

\* Two submissions at once and one after, and those that are turned away.
Form ==
  (r1 :> Contact(b1, a1, "good")) @@ (r2 :> Contact(b2, a1, "good"))
    @@ (r3 :> Contact(b1, a1, "good"))
FormRefused ==
  (r1 :> Contact(b1, None, "good")) @@ (r2 :> Contact(b1, a1, "bad"))
    @@ (r3 :> [Contact(b1, a1, "good") EXCEPT !.origin = "foreign", !.referer = "ours"])
FormDropped ==
  (r1 :> Contact(b1, a1, "trap")) @@ (r4 :> [Picture(b1, Square) EXCEPT !.form = "bad"])
    @@ (r2 :> [Contact(b1, a1, "good") EXCEPT !.origin = "none", !.referer = "ours"])
    @@ (r3 :> [Contact(b1, a1, "good") EXCEPT !.large = TRUE])

\* Three uploads, one of them too large for the decoder.
Pictures ==
  (r1 :> Picture(b1, Square)) @@ (r2 :> Picture(b1, <<1600, 15000>>))
    @@ (r3 :> Picture(b2, Huge))

\* A picture as flat as its budget allows for, and one without any pixel.
OddPictures == (r1 :> Picture(b1, Flat)) @@ (r2 :> Picture(b2, Empty))

Scene(jobs, first, second) == [job |-> jobs, user |-> (b1 :> first) @@ (b2 :> second)]

AllScenes ==
  {Scene(InAndOut, None, None), Scene(InAndOut, u2, None), Scene(TwoTabs, u1, None),
   Scene(OpenedTwice, None, u2), Scene(Form, None, None), Scene(FormRefused, u1, None),
   Scene(FormDropped, u1, None), Scene(Pictures, u1, u2),
   Scene(OddPictures, u1, u2)}

OneThin == {Scene(r1 :> Picture(b1, Thin), u1, None)}
=============================================================================
