------------------------ MODULE MCCurrencySelection ------------------------
(* Two lists of the controller: the second lacks a currency of the first.  *)
EXTENDS CurrencySelection

ModelLists == {<<"CNY", "USD">>, <<"USD">>}
=============================================================================
