---------------------------- MODULE MCConverters ----------------------------
(* TLC instances of Converters: machines on which some of the variants      *)
(* convert, and mails that hold every part, or hardly any.                  *)
EXTENDS Converters

MCFixture ==
  [subject |-> TRUE, from |-> <<"a">>, sender |-> <<>>, to |-> <<"b">>, cc |-> <<>>,
   bcc |-> <<>>, plain |-> TRUE, html |-> FALSE, attachments |-> <<1>>]

MCMails ==
  {[subject |-> TRUE, from |-> <<"a", "x">>, sender |-> <<"s">>, to |-> <<"b", "c">>, cc |-> <<"d">>,
    bcc |-> <<"e">>, plain |-> TRUE, html |-> TRUE, attachments |-> <<3, 0, 2>>],
   [subject |-> FALSE, from |-> <<>>, sender |-> <<"s">>, to |-> <<>>, cc |-> <<"d">>,
    bcc |-> <<>>, plain |-> FALSE, html |-> TRUE, attachments |-> <<>>]}

Converting(S, deferring) ==
  [converting : S, deferring : {deferring}, hive : {<<>>}, places : {{"registry"}}, raw : {{}},
   broken : {FALSE}, book : BOOLEAN]

\* Where the converter is found, with one variant that converts
Found(hive) ==
  {m \in [converting : {{2}}, deferring : {{}}, hive : {hive},
          places : SUBSET ({"registry", "module"} \cup Range(hive)),
          raw : SUBSET ({"module"} \cup Range(hive)), broken : BOOLEAN, book : {TRUE}] :
     MachineShape(m)}

MCMachines ==
  Converting(SUBSET {2, 5, 7}, {}) \cup Converting({{2}, {2, 5}}, {2})
    \cup Found(<<>>) \cup Found(<<"a", "b">>)
=============================================================================
