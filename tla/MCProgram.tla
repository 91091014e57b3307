------------------------------ MODULE MCProgram ------------------------------
(***************************************************************************)
(* A small instance of Program: models of three layers, a vocabulary of    *)
(* nine bytes and seven merges, and the jobs that reach each way through     *)
(* main.                                                                   *)
(***************************************************************************)
EXTENDS Program

AllOf(t) == [l \in Layers |-> [m \in Mats |-> t]]
McBases == {AllOf("I2_S"), AllOf("F16"), AllOf("F32"),
            [l \in Layers |-> [m \in Mats |->
                IF l > 0 /\ m = "rest" THEN "F32" ELSE "F16"]]}

Attn == Layers \X {"wq", "wk"}
Ffn == Layers \X {"rest"}
McAdapterLists == {<< >>, <<Attn \cup Ffn>>, <<Attn>>, <<Attn, Ffn>>, <<Ffn>>,
                   <<{0} \X Mats>>}

\* Less than the reserve; one layer; just the model in INT8; with one layer in
\* F16, a byte too little, exactly enough and some to spare; all of it in F16.
McFreeVram == {50, 400, 964, 1243, 1244, 1300, 1804}

McLetters == {"a", "b", "s"}
McMerges == << << <<"a">>, <<"b">> >>, << <<" ">>, <<"a", "b">> >>,
               << <<"a">>, <<"a">> >>, << <<"b">>, <<"a">> >>,
               << <<"a", "b">>, <<"b", "a">> >>, << <<"1">>, <<"1">> >>,
               << <<"n">>, <<"n">> >> >>
Bytes9 == McLetters \cup {"1", " ", "n", "<", ">", "'"}
\* A merge without a token of its own: the third.
McVocab == {<<c>> : c \in Bytes9}
             \cup {McMerges[i][1] \o McMerges[i][2] : i \in DOMAIN McMerges \ {3}}
McSpecials == {<<"<", "s", ">">>, <<"<", "s", ">", "b">>, <<"<", "b", ">">>}
McBos == <<"<", "s", ">">>
McEos == <<"<", "b", ">">>
McTwoEndings == {<<"b", "b">>}
McIds == << <<"a">>, <<"a", "b">>, McEos >>
McLogitSets == {<<0, 4, 8>>, <<8, 8, 8>>, <<4, 12, -8>>, <<-8, -8, 0>>, <<40, 0, 0>>}

Short == {<< >>} \cup {<<c>> : c \in Bytes9}
            \cup {<<c, d>> : c, d \in Bytes9 \ {"s", "'", ">", "n"}}
Long == {<<"a", "b", " ", "a", "b", "a">>, <<"1", "1", "1", "1", " ", "1">>,
         <<"a", "<", "s", ">", "b", "a">>, <<"<", "s", ">", "<", "s">>,
         <<"'", "s", "'", "b", "b", "'">>, <<"<", "<", "n", " ", "n", "a">>,
         <<"<", "1", "<", "1", "<", "1", "<", "1">>, <<" ", " ", "a", "a", "b", "a">>, <<"n", "n", " ", "1", "a", "b">>}
Prompts == (Short \ {<< >>}) \cup Long

Request(k, p, c, s) == [kind |-> k, prompt |-> p, continuation |-> c, start |-> s]
McRequests ==
    {Request("logprobs", p, c, 0) : p \in Prompts, c \in Short}
        \cup {Request("echo", p, << >>, s) : p \in Long, s \in 0 .. 8}
        \cup {Request("completion", p, << >>, 0) :
                 p \in {<<"a">>, <<"1", "1", "1", "1", " ", "1">>}}

\* The instance's merges are in the order of training.
ASSUME McMergesInOrder == InOrder

Job(argv_, file, base, norm, loras, text) ==
    [argv |-> argv_, file |-> file, base |-> base, norm |-> norm, embd |-> "F16",
     weights |-> <<1, 0, -1>>, loras |-> loras, text |-> text]

Loras(ls) == [i \in DOMAIN ls |-> "--lora"]

\* Loading on the GPU, every model with every list of adapters; main stops
\* after that, because the file has no tokenizer.
LoadJobs == {Job(<<"--model", "--prompt">> \o Loras(ls), "no tokenizer", b, "F32", ls, <<"a">>) :
                b \in McBases, ls \in McAdapterLists}

ExportJobs == {Job(<<"--no-gpu", "--export-gguf", "--model">> \o Loras(ls), "good", b, n, ls, << >>) :
                b \in {AllOf("I2_S"), AllOf("F16")}, n \in {"F32", "F16"},
                ls \in {<< >>, <<Attn>>, <<Attn, Ffn>>}}

RunJobs == {Job(<<"--model", "--no-gpu", "--prompt">>, "good", AllOf("F16"), "F32", << >>, text) :
                text \in {<<"a", "b">>, <<"1", " ", "1", " ", "1", " ", "1">>}}
           \cup {Job(<<"--server", "--no-gpu", "--model">>, "good", AllOf("F16"), "F32", << >>, << >>)}

OtherJobs == {Job(argv_, file, AllOf("F16"), "F32", << >>, <<"a">>) :
                argv_ \in {<< >>, <<"--help">>, <<"--model">>, <<"--prompt">>,
                           <<"--info">>, <<"--model", "bad number">>,
                           <<"unknown", "--help">>, <<"--export-gguf">>,
                           <<"--model", "--no-gpu">>, <<"--model", "--info">>,
                           <<"--model", "--prompt", "--no-gpu", "--export-gguf", "--server">>},
                file \in {"bad", "no tokenizer"}}

\* Merges into matrices of one to 17 weights, where a block has eight, with
\* several patterns of signs.
Signs(n) == {[i \in 1 .. n |-> ((i * i * d + i + e) % 3) - 1] : d, e \in 0 .. 2}
MergeJobs == {[Job(<<"--no-gpu", "--prompt", "--model", "--lora">>, "no tokenizer",
                   AllOf("I2_S"), "F32", <<Ffn>>, <<"a">>) EXCEPT !.weights = w] :
                w \in UNION {Signs(n) : n \in 1 .. 17}}

McJobs == MergeJobs \cup LoadJobs \cup ExportJobs \cup RunJobs \cup OtherJobs

McCuts == {0, 23, 24, 100, 250, 400, 600, 800, 1000, 1200, 1500}

=============================================================================
