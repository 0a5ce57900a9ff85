--------------------------- MODULE MCRemoteMirror ---------------------------
(* Instances of RemoteMirror for TLC. *)
EXTENDS RemoteMirror

CONSTANTS i1, i2, i3, a1, a2, r1, t1, u1, u2

ThreeInstances == {i1, i2, i3}
TwoAccounts == {a1, a2}
OneRepo == {r1}
OneTopic == {t1}
TwoUsers == {u1, u2}

Open1 == [repo |-> r1, account |-> a1]
Open2 == [repo |-> r1, account |-> a2]
Absent == [run |-> "absent", account |-> None, dir |-> None, convs |-> {}]
Instance(run, a, s) == [run |-> run, account |-> a, dir |-> r1, convs |-> {s}]
Cockpit(x, y) == [i \in ThreeInstances |-> IF i = i1 THEN x ELSE IF i = i2 THEN y ELSE Absent]
Stored(i, o) == [open |-> o, inst |-> i, observed |-> "READY"]
Allow(lives, meddling, faults, binds, outages) ==
    [lives |-> lives, meddling |-> meddling, faults |-> faults, binds |-> binds, outages |-> outages]
Update(kind, user, session) == [kind |-> kind, user |-> user, topic |-> t1, session |-> session]
Bound(s) == [topic |-> t1, session |-> s]

Quiet == [opens |-> {}, updates |-> <<>>, speech |-> <<>>, left |-> Allow(1, 0, 0, 0, 0),
          cockpit |-> Cockpit(Absent, Absent), sessions |-> <<>>, paired |-> {}, bound |-> <<>>]
OneSession == [Quiet EXCEPT !.cockpit = Cockpit(Instance("stopped", a1, 1), Absent),
                            !.sessions = <<Stored(i1, Open1)>>,
                            !.paired = {u1}, !.bound = <<Bound(1)>>]
TwoSessions == [OneSession EXCEPT
    !.cockpit = Cockpit(Instance("stopped", a1, 1), Instance("foreign", a2, 2)),
    !.sessions = <<Stored(i1, Open1), Stored(i2, Open2)>>]

(* Two --open sessions of one repository, from nothing, over three starts.   *)
Opening2 == [Quiet EXCEPT !.opens = {Open1, Open2}, !.left = Allow(3, 1, 1, 0, 0)]

(* A stored session of a stopped instance, and one of a running instance.    *)
Restarts == [TwoSessions EXCEPT !.opens = {Open1}, !.left = Allow(2, 2, 1, 0, 0)]

(* Texts of a paired user and of a stranger, one answer, a restart.          *)
Sending == [OneSession EXCEPT
    !.updates = <<Update("text", u1, 0), Update("button", u1, 1), Update("text", u2, 0),
                  Update("text", u1, 0)>>,
    !.left = Allow(2, 1, 1, 0, 0)]

(* Two streams of answers, Telegram out twice, a restart in between.         *)
Answers == [OneSession EXCEPT !.speech = <<"first", "first", "second">>,
                              !.left = Allow(2, 0, 1, 0, 2)]

(* The topic moves between two sessions while their agents speak.            *)
Rebinding == [TwoSessions EXCEPT !.speech = <<"first", "second">>,
    !.cockpit = Cockpit(Instance("stopped", a1, 1), Instance("stopped", a2, 2)),
    !.left = Allow(1, 0, 0, 2, 1)]

(* Two users with one pairing code.                                          *)
Pairing == [OneSession EXCEPT !.paired = {},
    !.updates = <<Update("pair", u1, 0), Update("text", u1, 0), Update("pair", u2, 0),
                  Update("text", u2, 0)>>]

McSetups == {Opening2, Restarts, Sending, Answers, Rebinding, Pairing}
McFinals == {Answers}
=============================================================================
