---------------------------- MODULE MCMcpGateway ----------------------------
(***************************************************************************)
(* Instances of McpGateway and PayDevnet.  Amounts are written in base 2   *)
(* with one place, so a unit of the token is two atoms; the policy admits  *)
(* one unit, "1".                                                          *)
(***************************************************************************)
EXTENDS PayDevnet, TLC

CONSTANTS merchant, attacker, payer, usdc, token, ata, atMerchant, atAttacker, atPayer, stranger

MCKeys == {merchant, attacker, payer, usdc, token, ata, atMerchant, atAttacker, atPayer, stranger}

MCAta ==
    [k \in MCKeys |->
        CASE k = merchant -> atMerchant
          [] k = attacker -> atAttacker
          [] OTHER -> atPayer]

One == [whole |-> <<1>>, dot |-> FALSE, fraction |-> <<>>]

OneAndAHalf == [whole |-> <<1>>, dot |-> TRUE, fraction |-> <<1>>]

Zero == [whole |-> <<0>>, dot |-> TRUE, fraction |-> <<0>>]

Tool(id, tool, to, amount, resource) ==
    [id |-> id, method |-> "tools/call",
     call |-> [tool |-> tool, to |-> to, amount |-> amount, resource |-> resource]]

Pay == Tool(TRUE, "authorize_payment", "merchant", {One}, "invoice:42")

Other(id, method) == [Pay EXCEPT !.id = id, !.method = method]

AllRequests ==
    {Pay,
     Tool(FALSE, "authorize_payment", merchant, {One}, "invoice:42"),
     Tool(TRUE, "authorize_payment", "attacker", {One}, "invoice:42"),
     Tool(TRUE, "authorize_payment", "merchant", {OneAndAHalf}, "invoice:42"),
     Tool(TRUE, "authorize_payment", "merchant", {Zero}, "invoice:42"),
     Tool(TRUE, "authorize_payment", "merchant", {One}, "invoice:99"),
     Tool(TRUE, "authorize_payment", "merchant", {}, "invoice:42"),
     Tool(TRUE, "other", "merchant", {One}, "invoice:42"),
     Other(TRUE, "ping"),
     Other(FALSE, "ping"),
     Other(FALSE, "notification"),
     Other(TRUE, "unknown"),
     Other(FALSE, "unknown")}

MCOrders ==
    {[to |-> merchant, amount |-> 2, tamper |-> FALSE],
     [to |-> attacker, amount |-> 3, tamper |-> FALSE],
     [to |-> payer, amount |-> 1, tamper |-> FALSE],
     [to |-> merchant, amount |-> 0, tamper |-> FALSE],
     [to |-> merchant, amount |-> 2, tamper |-> TRUE]}

=============================================================================
