--------------------------- MODULE MCGrpcObserver ----------------------------
(* Connections for GrpcObserver: two RPCs, one of them reset after its     *)
(* trailers; a client that stops making sense; and one that speaks TLS.    *)
EXTENDS GrpcObserver

Preface == Frame("preface", 0, "")
Other == Frame("other", 0, "")
Bad == Frame("bad", 0, "")
Call(s, path) == Frame("headers", s, path)
End(s, code) == Frame("trailers", s, code)
Reset(s) == Frame("rst", s, "")

TwoCalls == [client  |-> <<Preface, Call(1, "/pkg.Svc/Get"), Other, Call(3, "/odd")>>,
             backend |-> <<Other, End(1, "007"), Reset(1), End(3, "99")>>]
Broken   == [client  |-> <<Preface, Call(1, "/pkg.Svc/Get"), Bad, Call(3, "/pkg.Svc/Get")>>,
             backend |-> <<End(1, "0"), Bad, End(3, "0")>>]
Cipher   == [client  |-> <<Other, Call(1, "/pkg.Svc/Get")>>,
             backend |-> <<Other, End(1, "0")>>]

SmallAtoi == [v \in {"0", "007", "99"} |-> IF v = "0" THEN 0 ELSE IF v = "007" THEN 7 ELSE 99]
SmallTraffics == {TwoCalls, Broken, Cipher}
=============================================================================
