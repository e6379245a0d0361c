---------------------------- MODULE SampleBodies ----------------------------
(* Bodies of POST /v1/payments for the model-checking instances.            *)
EXTENDS PaymentRequest

\* Fields are in the order in which TLC first meets their names, so that no
\* record its workers share has to be sorted.

Plain == [metadata |-> Nil, inet |-> TRUE, amount |-> 1, upi |-> Nil, card |-> Nil,
          customer |-> "alice", method |-> "card", currency |-> <<"I", "N", "R">>,
          bank |-> Nil]

Card(number, cvv) ==
  [month |-> 6, year |-> 2025, number |-> number, holder |-> <<"text">>, cvv |-> cvv]
Bank(account) ==
  [holder |-> <<"text">>, account |-> account, ifsc |-> <<"HDFC", "0", "001234">>]
UPI(id) == [id |-> id]

Visa == <<"4", "2", "4", "2">>
Amex == <<"3", "4", "0", "0", "9">>

ByCard(number, cvv) == [Plain EXCEPT !.card = Card(number, cvv)]
ByUPI == [Plain EXCEPT !.method = "upi", !.upi = UPI(<<"name", "@", "bank">>),
                       !.customer = "bob"]
ByBank(account) == [Plain EXCEPT !.method = "bank", !.bank = Bank(account)]

Free == [ByUPI EXCEPT !.amount = 0]
ShortCard == ByCard(<<"1", "8">>, 3)

=============================================================================
