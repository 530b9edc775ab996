------------------------------- MODULE MCBytecode -------------------------------
(***************************************************************************)
(* Scripts that are written as text, parsed, compiled and run, each        *)
(* compared with its meaning.                                              *)
(***************************************************************************)
EXTENDS Interpreter

CONSTANT MaxSteps   \* more instructions than any of the programs runs

VARIABLE steps   \* the instructions so far

Tree == INSTANCE Scripts
Source == INSTANCE Sources
Writer == INSTANCE Writer
Script == INSTANCE ScriptMeaning

MCNumbers == [digits \in {ToString(n) : n \in (0..20) \cup {1000}} |-> CHOOSE n \in 0..1000 : ToString(n) = digits]

(* A source, with its tree and what it prints and how it ends, where they *)
(* are known; it is run when the latter is.  A sample without a source is  *)
(* written from its tree.                                                  *)
Sample(source, trees, meanings) == [source |-> source, trees |-> trees, meanings |-> meanings]
Ends(printed, how) == [out |-> printed, halted |-> how]
FromScripts(trees) == [i \in DOMAIN trees |-> Sample("", {trees[i]}, {Script!Meaning(trees[i])})]
FromTrees(trees) == [i \in DOMAIN trees |-> Sample("", {trees[i]}, {})]
Printing(sources) ==
  [i \in DOMAIN sources |-> Sample(Source!InMain(sources[i].text), {}, {Ends(sources[i].printed, "done")})]
Refused(texts) == [i \in DOMAIN texts |-> Sample("print(0); " \o texts[i], {}, {Ends(<<>>, "error")})]
Reading(sources) == [i \in DOMAIN sources |-> Sample(sources[i].text, {sources[i].tree}, {})]
Samples ==
  FromScripts(Tree!Scripts) \o FromTrees(Source!Nested)
  \o Printing(Source!Runnable) \o Refused(Source!Refusals) \o Reading(Source!Readings)
TextOf(i, sample) ==
  IF sample.source = "" THEN Writer!TextOf(i % 2, CHOOSE tree \in sample.trees : TRUE)
  ELSE Writer!Pieces(sample.source)
TextsOf(samples) == [i \in DOMAIN samples |-> TextOf(i, samples[i])]
Texts == <<>> \o TextsOf(Samples)
MCPrograms == Texts   \* TLC evaluates Texts once, but MCPrograms, which is given to a constant, at each use

MCInit == Init /\ steps = 0
MCNext == Samples[program].meanings # {} /\ Next /\ steps' = steps + 1
MCSpec == MCInit /\ [][MCNext]_<<vars, steps>>

Gives(parsed, tree) == ~parsed.failed /\ parsed.value = tree

(* A text is taken for the tree the grammar of ECMAScript says: operators  *)
(* with one another, names and words in their places, where a token ends,  *)
(* and whether a slash, a brace or a parenthesis begins a pattern, goes on *)
(* with a template, or holds the parameters of a function (parser.rs and   *)
(* scanner.rs).                                                            *)
ParsesAsWritten ==
  steps = 0 => \A tree \in Samples[program].trees :
    Gives(Grammar!ParseProgram(Programs[program]), tree)

(* Every script ends, prints what it means, and fails when it should: what *)
(* the parser writes in terms of the rest, the registers, jumps and        *)
(* handlers the generator chooses, the code it leaves out and turns        *)
(* around, and the paths the interpreter takes for speed change nothing    *)
(* that can be seen; and a text that cannot be parsed does nothing at all  *)
(* (parser.rs, bytecode_generator.rs, interpreter.rs, Context::eval).      *)
RunsAsMeant ==
  \A meaning \in Samples[program].meanings :
    IF halted = "no" THEN steps < MaxSteps ELSE [out |-> out, halted |-> halted] = meaning
===============================================================================
