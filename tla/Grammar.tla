------------------------------- MODULE Grammar -------------------------------
(***************************************************************************)
(* The parse functions of parser.c, one definition each, as sequences of   *)
(* the steps of ParseOps.  A function that runs off its end returns the    *)
(* node its last step left.                                                *)
(***************************************************************************)
EXTENDS ParseOps

------------------------------------------------------------------------------
(* Expressions *)

parse_type_layout_query ==
  << Take,
     If({"::"}, <<Take, Report, Until({";", "}"}, <<Take>>), Return("error")>>, << >>),
     Need("("),
     If({")"}, <<Take, Return("call")>>, << >>),
     Call("parse_type"), Need(")"), Return("call") >>

parse_if_expression ==
  << Condition, Need("{"), Expression, Need("}"), Need("else"),
     If({"if"}, <<Take, Call("parse_if_expression")>>, <<Need("{"), Expression, Need("}")>>),
     Return("if_expr") >>

parse_conversion_expression ==
  << Take, Need("("), Call("parse_type"), Need(","), Expression, Need(")"), Return("cast") >>

parse_zero_array_initializer ==
  << If({"int"}, <<Take>>, Fail), Maybe(<<Report>>), Need("}"), Return("zero") >>

(* A comma may stand before the closing bracket.                           *)
SlipArrayLiteral ==
  << If({"]"}, << >>, CommaList(<<Expression>>)), Match({"]"}, << >>), Return("array") >>
parse_array_literal ==
  << If({"]"}, << >>, <<Expression, While({","}, <<Take, If({"]"}, << >>, <<Expression>>)>>)>>),
     Want("]"), Return("array") >>

parse_primary ==
  << Match({"if"}, <<Call("parse_if_expression"), Leave>>),
     Match({"int"}, <<Maybe(<<Report>>), Return("literal")>>),
     Match({"string"}, <<While({"string"}, <<Take>>), Return("literal")>>),
     Match({"true"}, <<Return("literal")>>),
     If({"size_of"}, <<Call("parse_type_layout_query"), Leave>>, << >>),
     If({"cast"}, <<Call("parse_conversion_expression"), Leave>>, << >>),
     Match(Identifiers, <<If({"{"}, <<IfFree(<<Call("finish_struct_init"), Leave>>, << >>)>>, << >>), Return("ident")>>),
     Match({"("}, <<WithSuppress(FALSE, <<Expression>>), Want(")"), Group, Leave>>),
     Match({"["}, <<Call("parse_array_literal"), Leave>>),
     Match({"{"}, <<Call("parse_zero_array_initializer"), Leave>>),
     Report, Return("error") >>

make_inc_dec == << IfNode(is_assignable, << >>, <<Report>>), Return("incdec") >>

finish_call ==
  << WithSuppress(FALSE, <<If({")"}, << >>, CommaList(<<Expression, Match({"..."}, << >>)>>))>>),
     Want(")"), Return("call") >>

parse_explicit_type_arguments ==
  << If({"<"}, <<Take>>, <<Report, Return("error")>>),
     If({">"}, <<Report, Take, Return("error")>>, << >>) >>
  \o CommaList(<<Call("parse_type")>>)
  \o << IfGreater(<<Return("types")>>, <<Report, Return("error")>>) >>

finish_generic_call ==
  << Call("parse_explicit_type_arguments"),
     IfNode({"error"}, <<Return("error")>>, << >>),
     Match({"("}, <<Call("finish_call"), Return("call")>>),
     If({"{"}, <<IfFree(<<IfArgument({"ident", "path"}, <<Call("finish_struct_init"), Leave>>, << >>)>>, << >>)>>, << >>),
     If({"."}, <<IfArgument({"ident", "path"}, <<Return("type_ref")>>, << >>)>>, << >>),
     Report, Return("error") >>

(* Pure identifier chains keep their dotted spelling ("path").             *)
SlipFinishField == << If(Identifiers, <<Take>>, <<Return("error")>>), Return("field") >>
finish_field ==
  << If(Identifiers, <<Take>>, <<Report, Return("error")>>),
     IfArgument({"ident", "path"}, <<Return("path")>>, <<Return("field")>>) >>

finish_index == << WithSuppress(FALSE, <<Expression>>), Want("]"), Return("index") >>

finish_struct_init ==
  LET field == <<Need("ident"), Need("="), Expression>>
  IN << Want("{"),
        If({"}"}, << >>, field \o <<While({","}, <<Take, If({"}"}, << >>, field)>>)>>),
        Want("}"), Return("struct_init") >>

parse_postfix_from ==
  << While({"::", "(", ".", "[", "++", "--"},
       << If({"::"}, <<Take, Call("finish_generic_call")>>,
          <<If({"("}, <<Take, Call("finish_call")>>,
          <<If({"."}, <<Take, Call("finish_field"),
                        If({"{"}, <<IfFree(<<IfNode({"path"}, <<Call("finish_struct_init")>>, << >>)>>, << >>)>>, << >>)>>,
          <<If({"["}, <<Take, Call("finish_index")>>, <<Take, Call("make_inc_dec")>>)>>)>>)>>) >>) >>

parse_unary ==
  << Match({"++", "--"}, <<Call("parse_unary"), Call("make_inc_dec"), Leave>>),
     Match({"*"}, <<Call("parse_unary"), Return("deref")>>),
     Match(PrefixOperators \ {"++", "--", "*"}, <<Call("parse_unary"), Return("unary")>>),
     Call("parse_primary"), Call("parse_postfix_from") >>

parse_assignment_from ==
  << Match(AssignmentOperators, <<IfNode(is_assignable, << >>, <<Report>>), Expression, Return("assign")>>) >>

parse_assignment ==
  << Match({"discard"}, <<Expression, Return("unary")>>),
     Call("parse_unary"), Binary(LogicalOr), Call("parse_assignment_from") >>

------------------------------------------------------------------------------
(* Types *)

parse_dotted_name_from_first ==
  << While({"."}, <<Take, If(Identifiers, <<Take>>, <<Report, Return("name")>>)>>), Return("name") >>

parse_c_calling_convention_token ==
  << If({"cdecl"}, <<Take, Return("convention")>>, <<Take, Report, Return("error")>>) >>

(* The function type of C: its own way out at every missing token.        *)
(* C variadic types end with the ellipsis.                                 *)
cfn_parameters ==
  << If({"..."}, <<Take, Return("types")>>, << >>), Call("parse_type"), Match({","}, <<Jump("cfn_parameters")>>) >>

parse_cfn_type ==
  << Must("("),
     If({"call"}, <<IfPeek({"="},
          << Take, Want("="),
             If(Identifiers, <<Call("parse_c_calling_convention_token")>>, <<Report, Return("error")>>),
             IfNode({"error"}, <<Leave>>, << >>),
             If({")"}, << >>, <<Must(",")>>) >>, << >>)>>, << >>),
     If({")"}, << >>, <<If({"..."}, <<Report>>, << >>), Call("cfn_parameters")>>),
     Want(")"), Match({"->"}, <<Call("parse_type")>>), Return("type") >>

parse_base_type ==
  << Match({"cfn"}, <<Call("parse_cfn_type"), IfNode({"error"}, <<Return("bad")>>, <<Return("type")>>)>>),
     Match({"opaque"}, <<If({"*"}, <<Take, Return("pointer")>>, <<Report, Return("bad")>>)>>),
     Match(TypeWords, <<Return("type")>>),
     Match(Identifiers, <<Call("parse_dotted_name_from_first"),
                          Match({"::"}, <<Call("parse_explicit_type_arguments")>>), Return("type")>>),
     Report, Return("bad") >>

(* Qualifiers, the base, pointers, one array or slice suffix, and then     *)
(* whether the qualifiers had something to qualify.                        *)
pointer_qualifiers ==
  << While({"readonly", "volatile"},
       <<If({"readonly"}, <<Take, Mark("readonly", <<Report>>)>>, <<Take, Mark("volatile", <<Report>>)>>)>>) >>

parse_type ==
  pointer_qualifiers \o
  << Call("parse_base_type"),
     IfNode({"bad"}, <<Return("type")>>, << >>),
     IfNode({"pointer"}, <<Mark("pointer", << >>)>>, << >>),
     While({"*"}, <<Take, Mark("pointer", << >>)>>),
     Match({"["}, <<If({"]"}, <<Take, Mark("slice", << >>)>>, <<If({"int"}, <<Take, Maybe(<<Report>>)>>, <<Report>>), Want("]")>>)>>),
     IfMarked("pointer", <<Return("type")>>, << >>),
     IfMarked("volatile", <<Report>>, << >>),
     IfMarked("slice", <<Return("type")>>, << >>),
     IfMarked("readonly", <<Report>>, << >>),
     Return("type") >>

------------------------------------------------------------------------------
(* Declarations *)

finish_grouped_typed_var_decl ==
  << While({","}, <<Take, If(Identifiers, <<Take>>, Fail)>>),
     Need(":"), Call("parse_type"),
     If({":"}, <<Take>> \o Fail, << >>),
     Match({"="}, <<Expression>>), Need(";"), Return("var_decl_group") >>

finish_typed_decl ==
  << Call("parse_type"),
     Match({":"}, <<Expression, Need(";"), Return("const_decl")>>),
     Match({"="}, <<Expression>>), Need(";"), Return("var_decl") >>

finish_inferred_const_decl == << Expression, Need(";"), Return("const_decl") >>

finish_inferred_var_decl == << Expression, Need(";"), Return("var_decl") >>

(* A name after a comma may already be the last one before the colon.      *)
parameter_names ==
  << Must("ident"), Match({","}, <<Mark("several", << >>), Must("ident"),
                                   While({","}, <<Take, Must("ident")>>)>>), Must(":") >>

parse_parameter_group ==
  parameter_names \o
  << Match({"..."}, <<IfMarked("several", <<Call("parse_type"), Report, Return("error")>>, << >>)>>),
     Call("parse_type"),
     Match({"="}, <<Report, Expression>>), Return("parameters") >>

parse_function_signature_rest ==
  LET group == <<Call("parse_parameter_group"), IfNode({"error"}, <<Sync, Return("error")>>, << >>)>>
  IN << Need("("),
        If({")"}, << >>,
           <<If({"..."}, <<Take, Report>>,
               group \o <<While({","}, <<Take, If({"..."}, <<Take, Need(")"), Call("return_type"), Return("func_decl")>>, group)>>)>>)>>),
        Need(")"), Call("return_type"), Return("func_decl") >>

return_type == << Match({"->"}, <<Call("parse_type")>>), Leave >>

parse_generic_type_parameter_list_after_less ==
  << If({">"}, <<Report, Take, Return("error")>>, << >>),
     Call("generic_type_parameters"),
     IfNode({"error"}, <<Leave>>, << >>),
     IfGreater(<<Return("parameters")>>, Fail) >>

(* A pack must be the last parameter: what follows it is skipped.          *)
generic_type_parameters ==
  << Match({"..."}, <<Mark("pack", << >>)>>),
     Need("ident"), Match({":"}, <<Need("ident")>>),
     IfMarked("pack",
       <<If({","}, <<Take, Report, Until({">"}, <<Take>>), Match({">"}, << >>), Return("error")>>, <<Return("parameters")>>)>>,
       << >>),
     Match({","}, <<Jump("generic_type_parameters")>>), Return("parameters") >>

parse_proc_decl_rest ==
  << Call("parse_function_signature_rest"), IfNode({"error"}, <<Leave>>, << >>),
     If({"{"}, << >>, Fail), Call("parse_block"), Return("func_decl") >>

parse_generic_decl_rest ==
  << Must("<"), Call("parse_generic_type_parameter_list_after_less"), IfNode({"error"}, <<Leave>>, << >>),
     If({"("}, <<Call("parse_proc_decl_rest"), Leave>>, << >>),
     If({"struct", "resource"}, <<Call("parse_struct_decl_rest"), Leave>>, << >>) >> \o Fail

parse_struct_operator_block ==
  << Must("{"),
     Until({"}"}, << If({"unary"}, <<Take, If({"-"}, <<Take>>, Fail)>>, <<If({"+", "-", "*"}, <<Take>>, Fail)>>),
                     Need("="), Need("ident"), Need(";") >>),
     Must("}"), Return("operators") >>

parse_struct_member ==
  << If({"#"}, <<Call("parse_attribute_decl"),
                 IfNode({"error", "func_decl", "discardable_func"}, <<Leave>>, <<Report, Return("error")>>)>>, << >>),
     If({"operators"}, <<Take, If({"{"}, <<Call("parse_struct_operator_block"), Leave>>, << >>)>>, <<Need("ident")>>),
     Match({":"}, <<Call("parse_type"), Want(";"), Return("field_decl")>>),
     If({"::"}, <<Take>>, Fail),
     Match({"<"}, <<Call("parse_generic_type_parameter_list_after_less"), IfNode({"error"}, <<Leave>>, << >>)>>),
     If({"("}, << >>, Fail),
     Call("parse_proc_decl_rest"), Return("method") >>

parse_struct_decl_rest ==
  << Take, Match({";"}, <<Return("struct_decl")>>), Want("{"),
     Until({"}"}, <<Call("parse_struct_member"), IfNode({"error"}, <<Leave>>, << >>)>>),
     Want("}"), Return("struct_decl") >>

parse_enum_member == << Must("ident"), Match({"="}, <<Expression>>), Return("enum_member") >>

enum_members ==
  << If({"}", "eof"}, <<Leave>>, << >>), Call("parse_enum_member"),
     Match({","}, <<Jump("enum_members")>>),
     If({"}"}, << >>, <<Report, Sync>>) >>

parse_enum_decl_rest ==
  << Take, Match({"("}, <<Call("parse_type"), Need(")")>>), Need("{"),
     Call("enum_members"), Want("}"), Return("enum_decl") >>

parse_decl_after_name ==
  << If({"<"}, <<Call("parse_generic_decl_rest"), Leave>>, << >>),
     If({"("}, <<Call("parse_proc_decl_rest"), Leave>>, << >>),
     If({"struct", "resource", "union"}, <<Call("parse_struct_decl_rest"), Leave>>, << >>),
     If({"enum"}, <<Call("parse_enum_decl_rest"), Leave>>, << >>),
     Call("finish_inferred_const_decl") >>

(* #discardable, #repr(c, ...) and #extern(c, ...) before a declaration.   *)
convention_option == << Need("="), If(Identifiers, <<Call("parse_c_calling_convention_token")>>, Fail),
                        IfNode({"error"}, <<Sync, Return("error")>>, << >>) >>

attribute_abi == << Need("("), If({"c"}, <<Take>>, <<Need("ident")>> \o Fail) >>

parse_discardable ==
  << If({"#"}, <<Call("parse_attribute_decl")>>, <<Need("ident"), Need("::"), Call("parse_decl_after_name")>>),
     IfNode({"error"}, <<Leave>>, << >>),
     IfNode({"func_decl"}, <<Return("discardable_func")>>, <<Report, Return("error")>>) >>

repr_options ==
  << While({","},
       << Take,
          If({"packed"}, <<Take, Mark("layout", << >>), Mark("packed", Fail)>>,
          <<If({"align"}, <<Take, Mark("layout", << >>), Mark("align", Fail), Need("="), Need("int"), Maybe(Fail)>>,
          <<If({"call"}, <<Take, Mark("call", Fail)>> \o convention_option, <<Need("ident")>> \o Fail)>>)>>) >>) >>

parse_repr ==
  attribute_abi \o repr_options \o
  << Need(")"), Need("ident"), Need("::"),
     If({"struct", "union"}, <<IfMarked("call", Fail, << >>), Call("parse_struct_decl_rest"), Leave>>, << >>),
     IfMarked("layout", Fail, << >>),
     If({"("}, <<Call("parse_proc_decl_rest"), Leave>>, << >>),
     IfMarked("call", Fail, << >>),
     If({"enum"}, <<Call("parse_enum_decl_rest"), Leave>>, << >>) >> \o Fail

decode_extern_name == Maybe(Fail)

extern_options ==
  << While({","},
       << Take,
          If({"name"}, <<Take, Mark("name", Fail), Need("="), Need("string"), decode_extern_name>>,
          <<If({"call"}, <<Take, Mark("call", Fail)>> \o convention_option, <<Need("ident")>> \o Fail)>>) >>) >>

parse_extern ==
  attribute_abi \o extern_options \o
  << Need(")"), Need("ident"), Need("::"),
     If({"("}, << >>, Fail),
     Call("parse_function_signature_rest"), IfNode({"error"}, <<Leave>>, << >>),
     Need(";"), Return("func_decl") >>

parse_attribute_decl ==
  << Must("#"),
     Match({"discardable"}, <<Call("parse_discardable"), Leave>>),
     Match({"repr"}, <<Call("parse_repr"), Leave>>),
     Match({"extern"}, <<Call("parse_extern"), Leave>>),
     Need("ident") >> \o Fail

------------------------------------------------------------------------------
(* Statements *)

parse_expression_statement_rest ==
  << Call("parse_postfix_from"), Binary(LogicalOr), Call("parse_assignment_from"), Need(";"), Return("expr_stmt") >>

parse_expr_statement == << Expression, Need(";"), Return("expr_stmt") >>

parse_decl_or_expr_statement ==
  << If(Identifiers, <<Take>>, <<Call("parse_expr_statement"), Leave>>),
     If({","}, <<Call("finish_grouped_typed_var_decl"), Leave>>, << >>),
     Match({":="}, <<Call("finish_inferred_var_decl"), Leave>>),
     Match({"::"},
       <<If({"<"}, <<IfGenericExpression(<<Node("ident"), Call("finish_generic_call"),
                                            Call("parse_expression_statement_rest"), Leave>>, << >>)>>, << >>),
         Call("parse_decl_after_name"), Leave>>),
     Match({":"}, <<Call("finish_typed_decl"), Leave>>),
     Node("ident"),
     If({"{"}, <<IfFree(<<Call("finish_struct_init")>>, << >>)>>, << >>),
     Call("parse_expression_statement_rest") >>

parse_return_statement == << If({";"}, << >>, <<Expression>>), Need(";"), Return("return") >>

asm_operand == << Need("string"), Need("("), Expression, Need(")") >>

parse_asm_statement ==
  << Match({"volatile"}, << >>), Must("("), Need("string"), While({"string"}, <<Take>>), Need(":") >>
  \o asm_operand \o << Match({":"}, CommaList(asm_operand)), Need(")"), Need(";"), Return("asm") >>

parse_static_assert_statement ==
  << Need("("), If({")", ","}, Fail, << >>), Expression,
     Match({","}, <<Need("string")>>), Need(")"), Need(";"), Return("static_assert") >>

parse_defer_statement == << If({"{"}, <<Call("parse_block")>>, <<Expression, Need(";")>>), Return("defer") >>

parse_scoped_control_body == << Call("parse_statement"), Return("block") >>

parse_while_statement == << Condition, Call("parse_scoped_control_body"), Return("while") >>

parse_if_statement ==
  << Condition, Call("parse_scoped_control_body"),
     Match({"else"}, <<If({"if"}, <<Take, Call("parse_if_statement")>>, <<Call("parse_scoped_control_body")>>)>>),
     Return("if") >>

parse_c_style_for_statement ==
  << If({";"}, <<Take>>, <<Call("parse_decl_or_expr_statement"),
                           IfNode(for_initializer_is_allowed \union {"error"}, << >>, <<Report>>)>>),
     If({";"}, << >>, <<Expression>>), Must(";"),
     If({")"}, << >>, <<Expression>>), Must(")"),
     Call("parse_scoped_control_body"), Return("for") >>

parse_for_statement ==
  LET clauses == <<Expression, Match({":"}, <<Expression>>)>>
      body == <<Call("parse_scoped_control_body"), Return("for")>>
  IN << Match({"("},
          << If(Identifiers, <<IfPeek({"in"}, <<Take, Take, Must("ident"), Must(")")>> \o body, << >>)>>, << >>),
             IfCStyle(<<Call("parse_c_style_for_statement"), Leave>>, << >>),
             WithSuppress(TRUE, <<If({")"}, << >>, clauses)>>), Must(")") >> \o body),
        If({"{"}, << >>, <<WithSuppress(TRUE, clauses)>>) >> \o body

parse_switch_case ==
  << If({"case"}, <<Take, Expression>>, <<Take>>), Need(":"), Call("parse_statement"), Return("case") >>

parse_switch_statement ==
  << Take, Condition, Need("{"),
     Until({"}"}, <<If({"case", "default"}, <<Call("parse_switch_case")>>, <<Report, Sync>>)>>),
     Want("}"), Return("switch") >>

parse_compile_if_body ==
  << If({"eof", "}"}, <<Return("block")>>, << >>),
     If({"#"}, <<IfPeek({"elif", "else", "endif"}, <<Return("block")>>, << >>)>>, << >>),
     Call("parse_statement"), Jump("parse_compile_if_body") >>

consume_compile_if_end ==
  << If({"#"}, <<IfPeek({"endif"}, <<Take, Want("ident"), Return("endif")>>, << >>)>>, << >>), Report, Return("error") >>

parse_compile_if_after_keyword ==
  << Condition, Call("parse_compile_if_body"),
     If({"#"}, <<IfPeek({"elif"}, <<Take, Take, Call("parse_compile_if_after_keyword"), Return("compile_if")>>, << >>),
                 IfPeek({"else"}, <<Take, Take, Call("parse_compile_if_body")>>, << >>)>>, << >>),
     Call("consume_compile_if_end"), IfNode({"error"}, <<Leave>>, <<Return("compile_if")>>) >>

parse_block ==
  << Need("{"), Until({"}"}, <<Call("parse_statement")>>), Want("}"), Return("block") >>

parse_statement ==
  << If({"#"}, <<IfPeek({"if"}, <<Take, Take, Call("parse_compile_if_after_keyword"), Leave>>, << >>),
                 IfPeek({"elif", "else", "endif"}, <<Report, Take, Return("error")>>, << >>),
                 Call("parse_attribute_decl"), Leave>>, << >>),
     Match({"if"}, <<Call("parse_if_statement"), Leave>>),
     Match({"while"}, <<Call("parse_while_statement"), Leave>>),
     Match({"for"}, <<Call("parse_for_statement"), Leave>>),
     Match({"return"}, <<Call("parse_return_statement"), Leave>>),
     Match({"defer"}, <<Call("parse_defer_statement"), Leave>>),
     Match({"static_assert"}, <<Call("parse_static_assert_statement"), Leave>>),
     Match({"asm"}, <<Call("parse_asm_statement"), Leave>>),
     If({"switch"}, <<Call("parse_switch_statement"), Leave>>, << >>),
     Match({"break"}, <<Need(";"), Return("break")>>),
     If({"{"}, <<Call("parse_block"), Leave>>, << >>),
     Call("parse_decl_or_expr_statement") >>

directive(alias) ==
  << Take, Must("ident"), Call("parse_dotted_name_from_first"), Match(alias, <<Need("ident")>>), Need(";"), Return("directive") >>

top_level ==
  << If({"module"}, <<IfPeek(Identifiers, directive({}), << >>)>>, << >>),
     If({"import"}, <<IfPeek(Identifiers, directive({"as"}), << >>)>>, << >>),
     If({"export"}, <<IfPeek(Identifiers \union {"#"},
          <<Take, Call("parse_statement"), IfNode(node_is_exportable_declaration, << >>, <<Report>>), Leave>>, << >>)>>, << >>),
     Call("parse_statement") >>

parse_program == << Until({}, <<Call("top_level")>>), Return("program") >>

(* The functions by name, for Call and Jump.                               *)
Code == [ parse_type_layout_query |-> parse_type_layout_query, parse_if_expression |-> parse_if_expression,
          parse_conversion_expression |-> parse_conversion_expression,
          parse_zero_array_initializer |-> parse_zero_array_initializer, parse_array_literal |-> parse_array_literal,
          parse_primary |-> parse_primary, make_inc_dec |-> make_inc_dec, finish_call |-> finish_call,
          parse_explicit_type_arguments |-> parse_explicit_type_arguments,
          finish_generic_call |-> finish_generic_call, finish_field |-> finish_field, finish_index |-> finish_index,
          finish_struct_init |-> finish_struct_init, parse_postfix_from |-> parse_postfix_from,
          parse_unary |-> parse_unary, parse_assignment_from |-> parse_assignment_from,
          parse_assignment |-> parse_assignment, parse_dotted_name_from_first |-> parse_dotted_name_from_first,
          parse_c_calling_convention_token |-> parse_c_calling_convention_token, cfn_parameters |-> cfn_parameters,
          parse_cfn_type |-> parse_cfn_type, parse_type |-> parse_type, parse_base_type |-> parse_base_type,
          finish_grouped_typed_var_decl |-> finish_grouped_typed_var_decl, finish_typed_decl |-> finish_typed_decl,
          finish_inferred_const_decl |-> finish_inferred_const_decl,
          finish_inferred_var_decl |-> finish_inferred_var_decl, parse_parameter_group |-> parse_parameter_group,
          parse_function_signature_rest |-> parse_function_signature_rest, return_type |-> return_type,
          parse_generic_type_parameter_list_after_less |-> parse_generic_type_parameter_list_after_less,
          generic_type_parameters |-> generic_type_parameters, parse_proc_decl_rest |-> parse_proc_decl_rest,
          parse_generic_decl_rest |-> parse_generic_decl_rest,
          parse_struct_operator_block |-> parse_struct_operator_block, parse_struct_member |-> parse_struct_member,
          parse_struct_decl_rest |-> parse_struct_decl_rest, parse_enum_member |-> parse_enum_member,
          enum_members |-> enum_members, parse_enum_decl_rest |-> parse_enum_decl_rest,
          parse_decl_after_name |-> parse_decl_after_name, parse_discardable |-> parse_discardable,
          parse_repr |-> parse_repr, parse_extern |-> parse_extern, parse_attribute_decl |-> parse_attribute_decl,
          parse_expression_statement_rest |-> parse_expression_statement_rest,
          parse_expr_statement |-> parse_expr_statement,
          parse_decl_or_expr_statement |-> parse_decl_or_expr_statement,
          parse_return_statement |-> parse_return_statement, parse_asm_statement |-> parse_asm_statement,
          parse_static_assert_statement |-> parse_static_assert_statement,
          parse_defer_statement |-> parse_defer_statement, parse_scoped_control_body |-> parse_scoped_control_body,
          parse_while_statement |-> parse_while_statement, parse_if_statement |-> parse_if_statement,
          parse_c_style_for_statement |-> parse_c_style_for_statement, parse_for_statement |-> parse_for_statement,
          parse_switch_case |-> parse_switch_case, parse_switch_statement |-> parse_switch_statement,
          parse_compile_if_body |-> parse_compile_if_body, consume_compile_if_end |-> consume_compile_if_end,
          parse_compile_if_after_keyword |-> parse_compile_if_after_keyword, parse_block |-> parse_block,
          parse_statement |-> parse_statement, top_level |-> top_level ]

=============================================================================
