---------------------------- MODULE MCPayerLoop ----------------------------
(***************************************************************************)
(* Instances of PayerLoop.  The endpoints are a shop and a second merchant *)
(* the payer's scope also admits, and endpoints whose demand must be       *)
(* refused for one reason each.                                            *)
(***************************************************************************)
EXTENDS PayerLoop, TLC

CONSTANTS
    c1, c2, t1, t2,
    shop, elsewhere, pricey, plus, foreign, stranger, coinshop, huge,
    merchant, rival, unknown, attacker, usdc, coin, source, payer, token

MCKeys == {merchant, rival, unknown, attacker, usdc, coin, source, payer, token}

MCTokenPrograms == {token}

MCPayees == {merchant, rival}

Req(payTo, asset, amount, listed, spelled) ==
    [payTo |-> payTo, asset |-> asset, amount |-> amount,
     listed |-> listed, spelled |-> spelled]

MCDemand ==
    [s \in Servers |->
        CASE s = shop      -> Req(merchant, usdc, 1, TRUE, "canonical")
          [] s = elsewhere -> Req(rival, usdc, 1, TRUE, "canonical")
          [] s = pricey    -> Req(merchant, usdc, 3, TRUE, "canonical")
          [] s = plus      -> Req(merchant, usdc, 1, TRUE, "signed")
          [] s = foreign   -> Req(merchant, usdc, 1, FALSE, "canonical")
          [] s = stranger  -> Req(unknown, usdc, 1, TRUE, "canonical")
          [] s = coinshop  -> Req(merchant, coin, 1, TRUE, "canonical")
          [] s = huge      -> Req(merchant, usdc, 5, TRUE, "canonical")]

Plain(s, t) == [server |-> s, token |-> t, tamper |-> FALSE, expired |-> FALSE]

\* c1 tries every endpoint, the shop with a second token, with an expired one
\* and with a tampered transfer; c2 pays the shop.
MCCalls ==
    [c \in Clients |->
        IF c = c2 THEN {Plain(shop, t1)}
        ELSE {Plain(s, t1) : s \in Servers}
             \cup {Plain(shop, t) : t \in Tokens}
             \cup {[Plain(shop, t1) EXCEPT !.tamper = TRUE],
                   [Plain(shop, t1) EXCEPT !.expired = TRUE]}]

\* c2 is the run of a program after c1, whose requests may still be under way.
InTurn == [c \in Clients |-> Clients \cap IF c = c2 THEN {c1} ELSE {}]

\* docs/SPEC-X402.md:140: a replayed token is denied, so a token is paid with
\* once.  The nonce is to be written durably before ALLOW (SPEC-X402.md:163);
\* NewClient (demo/demo.go:198) and NewHTTPClient (demo/x402http.go:206) keep
\* it in memory, so another client value, the next run of the program, pays
\* with the same token again.
TokenReleasesOnce ==
    \A r1, r2 \in settled : r1.token = r2.token => r2 = [r1 EXCEPT !.copy = r2.copy]

\* "Deny by default, fail closed. Timeout [...] -> DENY" (README.md:196): a Pay
\* that has been started returns, or its process ends.  HTTPClient.Pay waits
\* for two answers (demo/x402http.go:230 and 291) with an http.Client that has
\* no timeout (line 207), so an endpoint that does not answer keeps it waiting.
PayReturns ==
    \A c \in Clients :
        pc[c] \in Live \ {"idle"} ~> pc[c] \in {"idle", "exited", "crashed"}

=============================================================================
