-------------------------- MODULE MCDocumentPanels --------------------------
(***************************************************************************)
(* An instance of DocumentPanels for TLC: the names the user types, the    *)
(* schemas of the argument, and the graphs a program is made of.           *)
(***************************************************************************)
EXTENDS DocumentPanels

MCNumbers == <<"2", "3", "4", "5", "6", "7", "8", "9">>
MCNames == {<<"m">>}
MCAllEdits == AllEdits

MCCharacters == {"~", "/", "$", "r", "e", "f", "a", "x"} \cup {ToString(i) : i \in 0..9}

\* Names with the characters that a handle escapes, and an escape spelt out.
Leaf(type) == [type |-> type, properties |-> NoParts, rest |-> <<>>]
Object(properties, rest) == [type |-> "object", properties |-> properties, rest |-> rest]
Array(items) == [type |-> "array", properties |-> NoParts, rest |-> <<items>>]
MCSchemas == {
    Object((<<"~", "1">> :> Leaf("string")) @@ (<<"/">> :> Array(Leaf("number"))), <<>>),
    Object(NoParts, <<Leaf("string")>>),
    Object(<<"~", "1">> :> Leaf("json"), <<>>),
    Array(Object(<<"a">> :> Leaf("string"), <<>>))}
MCSources == [text |-> "string", count |-> "integer", data |-> "json"]
MCNewKeys == {<<"~">>, <<"x">>}

Step(arg, deps, output) == [arg |-> arg, deps |-> deps, output |-> output]
MCDrawings ==
    {[nodes |-> (<<"n">> :> Step(first, {}, TRUE)) @@ (<<"n", "2">> :> second),
      inputs |-> {<<"i">>, <<"j">>}, outputs |-> {<<"n">>}] :
       first \in {Literally, InputAt("list", <<"i">>)},
       second \in {Step(NodeAt("top", <<"n">>), {}, TRUE), Step(InputAt("top", <<"j">>), {<<"n">>}, FALSE)}}
    \cup {[nodes |-> <<"n">> :> Step(InputAt("record", <<"k">>), {}, TRUE), inputs |-> {<<"k">>}, outputs |-> {}]}
MCSelected == SUBSET {<<"n">>, <<"n", "2">>}

Entry(kind, provider, models, backends, version, assets, defaults) ==
    [kind |-> kind, provider |-> provider, models |-> models, backends |-> backends,
     version |-> version, assets |-> assets, defaults |-> defaults]
PictureDefaults == ("model" :> Text("m1")) @@ ("seed" :> NoArgument)
FilterDefaults == "image" :> Text("sample")
Entries(version) == {
    Entry("picture", "mere.run", {}, {"cuda", "mlx"}, version, {"image"}, PictureDefaults),
    Entry("filter", "mere.run", {"m2"}, {"mlx"}, <<0, 9, 1>>, {"image"}, FilterDefaults),
    Entry("count", "tools", {}, {}, <<>>, {}, "model" :> NoArgument),
    Entry("play", "sound", {}, {}, <<>>, {}, "model" :> NoArgument)}
Tools(version) == [id |-> "tools", version |-> version]
Fleet(catalog, providers, secrets, backend) ==
    [catalog |-> catalog, providers |-> providers, secrets |-> secrets, backend |-> backend, version |-> <<0, 10, 0>>]
MCFleets == {
    Fleet(Entries(<<0, 10, 0>>), {Tools(1)}, {"key"}, "mlx"),
    Fleet(Entries(<<>>), {}, {"key"}, "mixed"),
    Fleet(Entries(<<0, 10, 0>>), {Tools(1), Tools(2)}, {}, "cuda"),
    Fleet({}, {}, {"key"}, "")}

Job(kind, provider, model, image) ==
    [kind |-> kind, provider |-> provider,
     arguments |-> ("model" :> model) @@ ("seed" :> NoArgument) @@ ("image" :> image)]
MCWorkflows ==
    {("a" :> Job("picture", "mere.run", model, image)) @@ ("b" :> other) :
       model \in {NoArgument, Text("m2"), RefTo("input")},
       image \in {NoArgument, Text("file"), RefTo("photo")},
       other \in {Job("filter", "mere.run", NoArgument, NoArgument),
                 Job("count", "tools", NoArgument, SecretAt("secret", "key")),
                 Job("count", "tools", Text("m1"), SecretAt("nested", "key"))}}
    \cup {("a" :> Job("count", "tools", NoArgument, NoArgument))
          @@ ("b" :> Job("play", "sound", NoArgument, NoArgument))}
MCWorkers == [models : SUBSET {"m1", "m2"}, secrets : {{}, {"key"}}, backend : {"cuda", "mlx"},
              providers : {{}, {Tools(1)}, {Tools(2)}}, version : {<<0, 9, 1>>, <<0, 10, 0>>, <<0, 23, 0>>}]
=============================================================================
