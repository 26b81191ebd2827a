---- MODULE BuiltinTypes ----
(***************************************************************************)
(* The builtin types and what semantic analysis is told of their           *)
(* functions: name, parameters and the type of the result, as the contexts *)
(* that builtin_sema_context, builtin_cmake_namespace_context,             *)
(* enum_creator and sema_generic_type_factory fill declare them.           *)
(***************************************************************************)
EXTENDS Sequences, FiniteSets, Naturals

CONSTANTS UserEnums,     \* enumerations of the script: their enumerators by type
          ElementTypes   \* T of the instances list<T> of the script

(* A type: the tokens of its name, the namespace its definition is in, and *)
(* whether it is the reference type of what the name says.                 *)
Named(tokens) == [name |-> tokens, scope |-> "builtin", ref |-> FALSE]
UserType(name, scope) == [name |-> <<name>>, scope |-> scope, ref |-> FALSE]
Ref(T) == [T EXCEPT !.ref = TRUE]
Decayed(T) == [T EXCEPT !.ref = FALSE]
\* Types are compared by their name, which has no namespace in it.
Same(T, U) == T.name = U.name /\ T.ref = U.ref

Void == Named(<<"void">>)
Bool == Named(<<"bool">>)
Int == Named(<<"int">>)
Double == Named(<<"double">>)
String == Named(<<"string">>)
Version == Named(<<"version">>)
Library == Named(<<"library">>)
Executable == Named(<<"executable">>)
Project == Named(<<"project">>)
Option == Named(<<"option">>)
CompilerInfo == Named(<<"cxx_compiler_info">>)
SystemInfo == Named(<<"system_info">>)
CompilerId == Named(<<"cxx_compiler_id">>)
StandardValue == Named(<<"cxx_standard_value">>)
Visibility == Named(<<"visibility">>)
SystemId == Named(<<"system_id">>)
List(T) == [T EXCEPT !.name = <<"list">> \o @]
Extern(T) == [T EXCEPT !.name = <<"extern">> \o @]
ValueType(T) == [T EXCEPT !.name = Tail(@)]
Strings == List(String)

\* Only these may be the value of an extern.
ExternTypes == {Bool, Int, Double, String}

(* The enumerators of the builtin enumerations, in order.                  *)
StandardValues == <<"cpp_11", "cpp_14", "cpp_17", "cpp_20">>
CompilerIds == <<"clang">>
Visibilities == <<"interface", "private", "public">>
SystemIds == <<"windows", "unix">>
BuiltinEnums == {CompilerId, StandardValue, Visibility, SystemId}
Enums == BuiltinEnums \union DOMAIN UserEnums
Enumerators(T) == CASE T = CompilerId -> CompilerIds [] T = StandardValue -> StandardValues
                    [] T = Visibility -> Visibilities [] T = SystemId -> SystemIds
                    [] OTHER -> UserEnums[T]

(* A declared function: its kind, what it is called, its parameters and its *)
(* result. Functions of one type are told apart by kind.                    *)
Fn(kind, name, params, result) ==
  [kind |-> kind, name |-> name, params |-> params, result |-> result]

OfBool == {
  Fn("bool_ctor", "bool", <<>>, Bool), Fn("bool_ctor_bool", "bool", <<Bool>>, Bool),
  Fn("bool_ctor_int", "bool", <<Int>>, Bool), Fn("bool_operator_equal", "=", <<Bool>>, Ref(Bool)),
  Fn("bool_operator_equal_equal", "==", <<Bool>>, Bool),
  Fn("bool_operator_pipe_pipe", "||", <<Bool>>, Bool),
  Fn("bool_operator_amp_amp", "&&", <<Bool>>, Bool),
  Fn("bool_operator_unary_exclaim", "!", <<>>, Bool), Fn("bool_to_string", "to_string", <<>>, String)}

OfInt == {
  Fn("int_ctor", "int", <<>>, Int), Fn("int_ctor_bool", "int", <<Bool>>, Int),
  Fn("int_ctor_int", "int", <<Int>>, Int), Fn("int_ctor_double", "int", <<Double>>, Int),
  Fn("int_to_string", "to_string", <<>>, String), Fn("int_operator_plus", "+", <<Int>>, Int),
  Fn("int_operator_unary_plusplus", "++", <<>>, Ref(Int)), Fn("int_operator_minus", "-", <<Int>>, Int),
  Fn("int_operator_unary_minus", "-", <<>>, Int),
  Fn("int_operator_unary_minusminus", "--", <<>>, Ref(Int)), Fn("int_operator_star", "*", <<Int>>, Int),
  Fn("int_operator_slash", "/", <<Int>>, Int), Fn("int_operator_equal", "=", <<Int>>, Int),
  Fn("int_operator_plus_equal", "+=", <<Int>>, Ref(Int)),
  Fn("int_operator_minus_equal", "-=", <<Int>>, Ref(Int)),
  Fn("int_operator_star_equal", "*=", <<Int>>, Ref(Int)),
  Fn("int_operator_slash_equal", "/=", <<Int>>, Ref(Int)),
  Fn("int_operator_less", "<", <<Int>>, Bool), Fn("int_operator_less_equal", "<=", <<Int>>, Bool),
  Fn("int_operator_greater", ">", <<Int>>, Bool), Fn("int_operator_greater_equal", ">=", <<Int>>, Bool),
  Fn("int_operator_equal_equal", "==", <<Int>>, Bool)}

OfDouble == {
  Fn("double_ctor", "double", <<>>, Double), Fn("double_ctor_double", "double", <<Double>>, Double),
  Fn("double_ctor_int", "double", <<Int>>, Double), Fn("double_operator_plus", "+", <<Double>>, Double),
  Fn("double_operator_unary_plusplus", "++", <<>>, Ref(Double)),
  Fn("double_operator_minus", "-", <<Double>>, Double),
  Fn("double_operator_unary_minus", "-", <<>>, Double),
  Fn("double_operator_unary_minusminus", "--", <<>>, Ref(Double)),
  Fn("double_operator_star", "*", <<Double>>, Double), Fn("double_operator_slash", "/", <<Double>>, Double),
  Fn("double_operator_equal", "=", <<Double>>, Ref(Double)),
  Fn("double_operator_plus_equal", "+=", <<Double>>, Ref(Double)),
  Fn("double_operator_minus_equal", "-=", <<Double>>, Ref(Double)),
  Fn("double_operator_star_equal", "*=", <<Double>>, Ref(Double)),
  Fn("double_operator_slash_equal", "/=", <<Double>>, Ref(Double)),
  Fn("double_operator_less", "<", <<Double>>, Bool),
  Fn("double_operator_less_equal", "<=", <<Double>>, Bool),
  Fn("double_operator_greater", ">", <<Double>>, Bool),
  Fn("double_operator_greater_equal", ">=", <<Double>>, Bool),
  Fn("double_to_string", "to_string", <<>>, String)}

\* void_type is the string type here.
ChangesOfString == LET void == String IN {
  Fn("string_ctor", "string", <<>>, String), Fn("string_ctor_string", "string", <<String>>, String),
  Fn("string_ctor_string_count", "string", <<String, Int>>, String),
  Fn("string_empty", "empty", <<>>, Bool), Fn("string_size", "size", <<>>, Int),
  Fn("string_operator_equal_equal", "==", <<String>>, Bool),
  Fn("string_operator_not_equal", "!=", <<String>>, Bool),
  Fn("string_operator_less", "<", <<String>>, Bool),
  Fn("string_operator_less_equal", "<=", <<String>>, Bool),
  Fn("string_operator_greater", ">", <<String>>, Bool),
  Fn("string_operator_greater_equal", ">=", <<String>>, Bool),
  Fn("string_operator_plus", "+", <<String>>, String),
  Fn("string_operator_plus_equal", "+=", <<String>>, Ref(String)),
  Fn("string_operator_slash", "/", <<String>>, String),
  Fn("string_operator_slash_equal", "/=", <<String>>, Ref(String)),
  Fn("string_clear", "clear", <<>>, void),
  Fn("string_insert_pos_str", "insert", <<Int, String>>, Ref(String)),
  Fn("string_erase_pos", "erase", <<Int>>, Ref(String)),
  Fn("string_erase_pos_count", "erase", <<Int, Int>>, Ref(String))}
SearchesOfString == LET void == String IN {
  Fn("string_starts_with", "starts_with", <<String>>, Bool),
  Fn("string_ends_with", "ends_with", <<String>>, Bool),
  Fn("string_replace_pos_count_str", "replace", <<Int, Int, String>>, Ref(String)),
  Fn("string_substr_pos", "substr", <<Int>>, String),
  Fn("string_substr_pos_count", "substr", <<Int, Int>>, String),
  Fn("string_resize_newsize", "resize", <<Int>>, void),
  Fn("string_resize_newsize_fill", "resize", <<Int, String>>, void),
  Fn("string_find_str", "find", <<String>>, Int), Fn("string_find_str_pos", "find", <<String, Int>>, Int),
  Fn("string_find_not_of_str", "find_not_of", <<String>>, Int),
  Fn("string_find_not_of_str_pos", "find_not_of", <<String, Int>>, Int),
  Fn("string_find_last_str", "find_last", <<String>>, Int),
  Fn("string_find_last_not_of_str", "find_last_not_of", <<String>>, Int),
  Fn("string_contains", "contains", <<String>>, Bool),
  Fn("string_lower", "lower", <<>>, void), Fn("string_make_lower", "make_lower", <<>>, String),
  Fn("string_upper", "upper", <<>>, void), Fn("string_make_upper", "make_upper", <<>>, String)}
OfString == ChangesOfString \union SearchesOfString

OfVersion == {
  Fn("version_ctor_major", "version", <<Int>>, Version),
  Fn("version_ctor_major_minor", "version", <<Int, Int>>, Version),
  Fn("version_ctor_major_minor_patch", "version", <<Int, Int, Int>>, Version),
  Fn("version_ctor_major_minor_patch_tweak", "version", <<Int, Int, Int, Int>>, Version),
  Fn("version_operator_equal_equal", "==", <<Version>>, Bool),
  Fn("version_operator_not_equal", "!=", <<Version>>, Bool),
  Fn("version_operator_less", "<", <<Version>>, Bool),
  Fn("version_operator_less_equal", "<=", <<Version>>, Bool),
  Fn("version_operator_greater", ">", <<Version>>, Bool),
  Fn("version_operator_greater_equal", ">=", <<Version>>, Bool),
  Fn("version_major", "major", <<>>, Int), Fn("version_minor", "minor", <<>>, Int),
  Fn("version_patch", "patch", <<>>, Int), Fn("version_tweak", "tweak", <<>>, Int),
  Fn("version_to_string", "to_string", <<>>, String)}

OfLibrary == {
  Fn("library_name", "name", <<>>, String), Fn("library_link_to", "link_to", <<Library>>, Void),
  Fn("library_link_to_visibility", "link_to", <<Library, Visibility>>, Void),
  Fn("library_include_directories", "include_directories", <<Strings>>, Void),
  Fn("library_include_directories_visibility", "include_directories", <<Strings, Visibility>>, Void),
  Fn("library_compile_definitions", "compile_definitions", <<Strings>>, Void),
  Fn("library_compile_definitions_visibility", "compile_definitions", <<Strings, Visibility>>, Void),
  Fn("library_compile_options", "compile_options", <<Strings>>, Void),
  Fn("library_compile_options_visibility", "compile_options", <<Strings, Visibility>>, Void),
  Fn("library_add_sources", "add_sources", <<Strings>>, Void),
  Fn("library_add_sources_visibility", "add_sources", <<Strings, Visibility>>, Void)}

OfExecutable == {
  Fn("executable_name", "name", <<>>, String), Fn("executable_link_to", "link_to", <<Library>>, Void),
  Fn("executable_link_to_visibility", "link_to", <<Library, Visibility>>, Void),
  Fn("executable_include_directories", "include_directories", <<Strings>>, Void),
  Fn("executable_include_directories_visibility", "include_directories", <<Strings, Visibility>>, Void),
  Fn("executable_compile_definitions", "compile_definitions", <<Strings>>, Void),
  Fn("executable_compile_definitions_visibility", "compile_definitions", <<Strings, Visibility>>, Void),
  Fn("executable_compile_options", "compile_options", <<Strings>>, Void),
  Fn("executable_compile_options_visibility", "compile_options", <<Strings, Visibility>>, Void),
  Fn("executable_add_sources", "add_sources", <<Strings>>, Void),
  Fn("executable_add_sources_visibility", "add_sources", <<Strings, Visibility>>, Void)}

OfProject == {
  Fn("project_ctor_name", "project", <<String>>, Project), Fn("project_name", "name", <<>>, String),
  Fn("project_add_executable", "add_executable", <<String, Strings>>, Executable),
  Fn("project_add_library", "add_library", <<String, Strings>>, Library),
  Fn("project_find_library", "find_library", <<String>>, Library)}

OfOption == {
  Fn("option_ctor_description", "option", <<String, String>>, Option),
  Fn("option_ctor_description_value", "option", <<String, String, Bool>>, Option),
  Fn("option_value", "value", <<>>, Bool)}

OfEnum(E) == {
  Fn("enum_to_string", "to_string", <<>>, String), Fn("enum_operator_equalequal", "==", <<E>>, Bool),
  Fn("enum_operator_exclaimequal", "!=", <<E>>, Bool), Fn("enum_operator_equal", "=", <<E>>, Ref(E))}

OfExtern(X) == {
  Fn("extern_constructor_name", "extern", <<String>>, X), Fn("extern_has_value", "has_value", <<>>, Bool),
  Fn("extern_value", "value", <<>>, ValueType(X))}

ElementsOfList(L) == LET T == ValueType(L) IN {
  Fn("list_ctor", "list", <<>>, L),
  Fn("list_push_back_value", "push_back", <<T>>, Void), Fn("list_push_back_list", "push_back", <<L>>, Void),
  Fn("list_push_front_value", "push_front", <<T>>, Void),
  Fn("list_push_front_list", "push_front", <<L>>, Void),
  Fn("list_pop_back", "pop_back", <<>>, Void), Fn("list_pop_front", "pop_front", <<>>, Void),
  Fn("list_at", "at", <<Int>>, T), Fn("list_front", "front", <<>>, T), Fn("list_back", "back", <<>>, T),
  Fn("list_insert_pos_value", "insert", <<Int, T>>, Void),
  Fn("list_insert_pos_list", "insert", <<Int, L>>, Void),
  Fn("list_erase_pos", "erase", <<Int>>, Void), Fn("list_erase_pos_count", "erase", <<Int, Int>>, Void)}
SearchesOfList(L) == LET T == ValueType(L) IN {
  Fn("list_remove_value", "remove", <<T>>, Int), Fn("list_remove_value_count", "remove", <<T, Int>>, Int),
  Fn("list_remove_last_value_count", "remove_last", <<T, Int>>, Int),
  Fn("list_clear", "clear", <<>>, Void), Fn("list_resize", "resize", <<Int>>, Void),
  Fn("list_sort", "sort", <<>>, Void), Fn("list_reverse", "reverse", <<>>, Void),
  Fn("list_min", "min", <<>>, Int), Fn("list_max", "max", <<>>, Int),
  Fn("list_sublist_pos", "sublist", <<Int>>, L), Fn("list_sublist_pos_count", "sublist", <<Int, Int>>, L),
  Fn("list_size", "size", <<>>, Int), Fn("list_empty", "empty", <<>>, Bool),
  Fn("list_find_value", "find", <<T>>, Int), Fn("list_find_value_pos", "find", <<T, Int>>, Int),
  Fn("list_operator_plus_value", "+", <<T>>, L), Fn("list_operator_plus_list", "+", <<L>>, L),
  Fn("list_operator_plus_equal_value", "+=", <<T>>, L),
  Fn("list_operator_plus_equal_list", "+=", <<L>>, L)}
OfList(L) == ElementsOfList(L) \union SearchesOfList(L)

OfClass(C) == {Fn("user_type_operator_equal", "=", <<Ref(C)>>, Ref(C))}

OfCMake == {
  Fn("cmake_minimum_required", "minimum_required", <<Version>>, Void),
  Fn("cmake_message", "message", <<String>>, Void), Fn("cmake_warning", "warning", <<String>>, Void),
  Fn("cmake_error", "error", <<String>>, Void), Fn("cmake_fatal_error", "fatal_error", <<String>>, Void),
  Fn("cmake_get_cxx_compiler_info", "get_cxx_compiler_info", <<>>, CompilerInfo),
  Fn("cmake_install_executable", "install", <<Executable>>, Void),
  Fn("cmake_install_executable_destination", "install", <<Executable, String>>, Void),
  Fn("cmake_install_library", "install", <<Library>>, Void),
  Fn("cmake_install_library_destination", "install", <<Library, String>>, Void),
  Fn("cmake_enable_ctest", "enable_ctest", <<>>, Void), Fn("cmake_add_test", "add_test", <<Executable>>, Void),
  Fn("cmake_root_source_dir", "root_source_dir", <<>>, String),
  Fn("cmake_current_binary_dir", "current_binary_dir", <<>>, String),
  Fn("cmake_current_source_dir", "current_source_dir", <<>>, String),
  Fn("cmake_add_custom_command", "add_custom_command", <<Strings, String>>, Void),
  Fn("cmake_make_directory", "make_directory", <<String>>, Void),
  Fn("cmake_set_old_style_variable", "set_old_style_variable", <<String, String>>, Void),
  Fn("cmake_get_old_style_variable", "get_old_style_variable", <<String>>, String),
  Fn("cmake_get_system_info", "get_system_info", <<>>, SystemInfo),
  Fn("cmake_add_custom_target", "add_custom_target", <<String, Strings>>, Void),
  Fn("cmake_ctest_command", "ctest_command", <<>>, String)}
====
