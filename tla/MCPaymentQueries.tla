-------------------------- MODULE MCPaymentQueries --------------------------
(* Model-checking instance of PaymentQueries: the bodies clients send and a *)
(* clock, with the text of strings as short token sequences.                *)
EXTENDS PaymentQueries, SampleBodies

MCNow == [month |-> 6, year |-> 2025]
MCUPIIDs == {<<"name", "@", "bank">>}
MCIFSCs == {<<"HDFC", "0", "001234">>}
MCTimes == {[us |-> 7, ns |-> 3]}

MCBodies ==
  {\* accepted
   [ByCard(Visa, 3) EXCEPT !.metadata = [note |-> <<"text">>]],
   [ByCard(Amex, 4) EXCEPT !.currency = <<"I", "N", "R", " ", " ">>],
   ByUPI, ByBank(<<"000", "1">>),
   \* accepted by the service, refused by the types of the table
   [ByUPI EXCEPT !.inet = FALSE], [ByUPI EXCEPT !.currency = <<"E", "U", "R", "O">>],
   \* accepted by the service, refused by currency_length
   [ByUPI EXCEPT !.currency = <<"I", "N", " ">>],
   \* refused
   ByCard(<<"4", "2", "4", "3">>, 3), ByCard(Amex, 3), ByBank(Empty), Free,
   [ByUPI EXCEPT !.amount = 11], [ByUPI EXCEPT !.upi = UPI(<<"text">>)],
   [ByUPI EXCEPT !.card = Card(Visa, 3)], [ByCard(Visa, 3) EXCEPT !.card.month = 5],
   \* a card number too short for its last four digits
   ShortCard}

=============================================================================
