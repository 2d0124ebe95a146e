----------------------------- MODULE Compilation -----------------------------
(***************************************************************************)
(* The work of the compiler up to the checking of function bodies: the     *)
(* driver finds the files (Discovery), each is read (Lexer) and parsed     *)
(* (Parser), and the analyser binds the names (Modules), lays out the      *)
(* structs (Layout), evaluates the globals (Globals) and specialises the   *)
(* generics (Specialization).  A compilation is one thread that never      *)
(* waits for anything, and each part is handed a finished result by the    *)
(* one before.  A behaviour here takes one part through one input while    *)
(* the others stand before an empty one.                                   *)
(***************************************************************************)
EXTENDS Parser, Lexer, Discovery, Modules, Layout, Globals, Specialization

VARIABLE part  \* the part the behaviour follows

Parts == {"discovery", "lexer", "parser", "modules", "layout", "globals", "generics"}

EmptyDisk == [exists |-> {}, unreadable |-> {}, broken |-> {}]
NoDiscovery == /\ disk = EmptyDisk /\ inputs = << >> /\ discover = FALSE
               /\ loaded = << >> /\ file = 1 /\ item = 1 /\ candidates = << >> /\ status = "reading"
NoText == text = << >> /\ at = 1 /\ scanned = << >>
NoTokens == /\ alphabet = {} /\ left = 0 /\ open = << >> /\ tokens = [current |-> "eof", previous |-> "other", ahead |-> << >>]
            /\ machine = [frames |-> <<Frame(<<Take>> \o parse_program, "none")>>, node |-> Atomic("none"),
                          had_error |-> FALSE, suppress_struct_init |-> FALSE, faults |-> {}]
NoSource == /\ source = << >> /\ walk_no = 1 /\ stmt_no = 1 /\ selected = 0 /\ mistakes = 0 /\ scope = << >>
            /\ seen = << >> /\ module_of = << >> /\ imports = << >> /\ meanings = << >>
NoTable == /\ table = << >> /\ fields = [name \in Names |-> Unresolved]
           /\ phase = "fill" /\ visit = [name \in Names |-> 0] /\ walk = << >> /\ faults = {}
NoGlobals == /\ decls = << >> /\ stack = << >> /\ next = 0 /\ started = {} /\ complete = {} /\ valued = {} /\ typed = {}
             /\ specialized = {} /\ errors = 0 /\ aborted = FALSE
NoTemplates == /\ program = [main |-> [kind |-> "main", signature |-> << >>, body |-> << >>, fault |-> [where |-> "nowhere", when |-> "never"]]]
               /\ frames = <<[key |-> <<"main", 0>>, at |-> 1, before |-> 0]>> /\ specs = << >> /\ error_count = 0

CompilationInit ==
  /\ part \in Parts
  /\ IF part = "discovery" THEN DiscoveryInit ELSE NoDiscovery
  /\ IF part = "lexer" THEN LexInit ELSE NoText
  /\ IF part = "parser" THEN ParseInit ELSE NoTokens
  /\ IF part = "modules" THEN ModulesInit ELSE NoSource
  /\ IF part = "layout" THEN LayoutInit ELSE NoTable
  /\ IF part = "globals" THEN GlobalsInit ELSE NoGlobals
  /\ IF part = "generics" THEN SpecializationInit ELSE NoTemplates

FindFiles  == part = "discovery" /\ DiscoveryNext /\ UNCHANGED <<part, lvars, pvars, mvars, yvars, gvars, svars>>
ReadText   == part = "lexer" /\ LexNext /\ UNCHANGED <<part, dvars, pvars, mvars, yvars, gvars, svars>>
Parse      == part = "parser" /\ ParseNext /\ UNCHANGED <<part, dvars, lvars, mvars, yvars, gvars, svars>>
BindNames  == part = "modules" /\ ModulesNext /\ UNCHANGED <<part, dvars, lvars, pvars, yvars, gvars, svars>>
LayOut     == part = "layout" /\ LayoutNext /\ UNCHANGED <<part, dvars, lvars, pvars, mvars, gvars, svars>>
Evaluate   == part = "globals" /\ GlobalsNext /\ UNCHANGED <<part, dvars, lvars, pvars, mvars, yvars, svars>>
Specialise == part = "generics" /\ SpecializationNext /\ UNCHANGED <<part, dvars, lvars, pvars, mvars, yvars, gvars>>

Compile == FindFiles \/ ReadText \/ Parse \/ BindNames \/ LayOut \/ Evaluate \/ Specialise
compilation == <<part, dvars, lvars, pvars, mvars, yvars, gvars, svars>>
CompilationSpec == CompilationInit /\ [][Compile]_compilation /\ WF_compilation(Compile)

(* Whatever the input, every part comes to its end: the driver, whose list *)
(* grows while it is walked; the lexer and the parser, which go on after   *)
(* an error; the walks over the statements, over structs that hold each    *)
(* other and over globals that need each other; and generics that ask for  *)
(* more generics.                                                          *)
CompilationTerminates ==
  <>(CASE part = "discovery" -> status \in Final
       [] part = "lexer"     -> Finished
       [] part = "parser"    -> Parsed
       [] part = "modules"   -> Through
       [] part = "layout"    -> phase = "done"
       [] part = "globals"   -> Checked \/ aborted
       [] part = "generics"  -> frames = << >>)
=============================================================================
