---- MODULE BuiltinCaller ----
(***************************************************************************)
(* builtin_function_caller: what each builtin function reads from the      *)
(* instance it is called on and from its arguments, what it stores in the  *)
(* instance, and what it returns.                                          *)
(***************************************************************************)
EXTENDS Sequences

(* Some cases of a switch with one handler: kinds are their labels, reads   *)
(* is the alternative of the receiver's value that is read, args the        *)
(* alternatives of the arguments, "any" when the value is not looked at,    *)
(* "like" when it is compared with elements; stores is the alternative of   *)
(* the receiver's value afterwards.                                         *)
Returning(result, kinds, reads, args, stores) ==
  [kinds |-> kinds, reads |-> reads, args |-> args, stores |-> stores, result |-> result]

\* A new instance with the value.
Making(alternative, kinds, reads, args) == Returning(alternative, kinds, reads, args, "same")
\* The receiver itself, of a constructor, or a reference to it.
Constructing(kinds, args, stores) == Returning("receiver", kinds, "any", args, stores)
Changing(kinds, reads, args, stores) == Returning("reference_to_receiver", kinds, reads, args, stores)
\* create_void: there is no void instance, only true.
Acting(kinds, reads, args) == Making("bool", kinds, reads, args)

CallBool == {
  Constructing({"bool_ctor"}, <<>>, "bool"), Constructing({"bool_ctor_bool"}, <<"bool">>, "bool"),
  Constructing({"bool_ctor_int"}, <<"int">>, "bool"),
  Changing({"bool_operator_equal"}, "any", <<"bool">>, "bool"),
  Making("bool", {"bool_operator_equal_equal", "bool_operator_pipe_pipe", "bool_operator_amp_amp"},
            "bool", <<"bool">>),
  Making("bool", {"bool_operator_unary_exclaim"}, "bool", <<>>),
  Making("string", {"bool_to_string"}, "int", <<>>)}

CallInt == {
  Constructing({"int_ctor"}, <<>>, "int"), Constructing({"int_ctor_bool"}, <<"bool">>, "int"),
  Constructing({"int_ctor_int"}, <<"int">>, "int"),
  Constructing({"int_ctor_double"}, <<"double">>, "int"),
  Changing({"int_operator_equal"}, "any", <<"int">>, "int"),
  Making("int", {"int_operator_plus", "int_operator_minus", "int_operator_star",
                    "int_operator_slash"}, "int", <<"int">>),
  Making("int", {"int_operator_unary_minus"}, "int", <<>>),
  Changing({"int_operator_unary_plusplus", "int_operator_unary_minusminus"}, "int", <<>>, "int"),
  Changing({"int_operator_plus_equal", "int_operator_minus_equal", "int_operator_star_equal",
               "int_operator_slash_equal"}, "int", <<"int">>, "int")}

CompareInt == {
  Making("bool", {"int_operator_less", "int_operator_less_equal", "int_operator_greater",
                  "int_operator_greater_equal", "int_operator_equal_equal"}, "int", <<"int">>),
  Making("string", {"int_to_string"}, "int", <<>>)}

\* No case of the switch is for double_to_string.
CallDouble == {
  Constructing({"double_ctor"}, <<>>, "double"), Constructing({"double_ctor_int"}, <<"int">>, "double"),
  Constructing({"double_ctor_double"}, <<"double">>, "double"),
  Changing({"double_operator_equal"}, "any", <<"double">>, "double"),
  Making("double", {"double_operator_plus", "double_operator_minus", "double_operator_star",
                       "double_operator_slash"}, "double", <<"double">>),
  Making("double", {"double_operator_unary_minus"}, "double", <<>>),
  Changing({"double_operator_unary_plusplus", "double_operator_unary_minusminus"},
              "double", <<>>, "double"),
  Changing({"double_operator_plus_equal", "double_operator_minus_equal",
               "double_operator_star_equal", "double_operator_slash_equal"},
              "double", <<"double">>, "double"),
  Making("bool", {"double_operator_less", "double_operator_less_equal",
                     "double_operator_greater", "double_operator_greater_equal"},
            "double", <<"double">>)}

StringComparisons == {"string_operator_equal_equal", "string_operator_not_equal",
  "string_operator_less", "string_operator_less_equal", "string_operator_greater",
  "string_operator_greater_equal"}

\* Looking at a string.
ReadString == {
  Making("bool", {"string_empty"}, "string", <<>>), Making("int", {"string_size"}, "string", <<>>),
  Making("bool", StringComparisons, "string", <<"string">>),
  Making("string", {"string_operator_plus", "string_operator_slash"}, "string", <<"string">>)}

ChangeString == {
  Constructing({"string_ctor"}, <<>>, "string"), Constructing({"string_ctor_string"}, <<"string">>, "string"),
  Returning("receiver", {"string_ctor_string_count"}, "string", <<"string", "int">>, "string"),
  Changing({"string_operator_plus_equal", "string_operator_slash_equal"},
              "string", <<"string">>, "string"),
  Changing({"string_clear"}, "string", <<>>, "string"),
  Changing({"string_insert_pos_str"}, "string", <<"int", "string">>, "string"),
  Changing({"string_erase_pos"}, "string", <<"int">>, "string"),
  Changing({"string_erase_pos_count"}, "string", <<"int", "int">>, "string")}

SearchString == {
  Making("bool", {"string_starts_with", "string_ends_with"}, "string", <<"string">>),
  Changing({"string_replace_pos_count_str"}, "string", <<"int", "int", "string">>, "string"),
  Making("string", {"string_substr_pos"}, "string", <<"int">>),
  Making("string", {"string_substr_pos_count"}, "string", <<"int", "int">>),
  Changing({"string_resize_newsize"}, "string", <<"int">>, "string"),
  Changing({"string_resize_newsize_fill"}, "string", <<"int", "string">>, "string"),
  Making("int", {"string_find_str", "string_find_not_of_str"}, "string", <<"string">>),
  Making("int", {"string_find_str_pos", "string_find_not_of_str_pos"}, "string", <<"string", "int">>)}

ConvertString == {
  Making("int", {"string_find_last_str", "string_find_last_not_of_str"}, "string", <<"string">>),
  Making("bool", {"string_contains"}, "string", <<"string">>),
  Changing({"string_lower", "string_upper"}, "string", <<>>, "string"),
  Making("string", {"string_make_lower", "string_make_upper"}, "string", <<>>)}

CallVersion == {
  Constructing({"version_ctor_major"}, <<"int">>, "version"),
  Constructing({"version_ctor_major_minor"}, <<"int", "int">>, "version"),
  Constructing({"version_ctor_major_minor_patch"}, <<"int", "int", "int">>, "version"),
  Constructing({"version_ctor_major_minor_patch_tweak"}, <<"int", "int", "int", "int">>, "version"),
  Making("bool", {"version_operator_equal_equal", "version_operator_not_equal",
                     "version_operator_less", "version_operator_less_equal",
                     "version_operator_greater", "version_operator_greater_equal"},
            "version", <<"version">>),
  Making("int", {"version_major", "version_minor", "version_patch", "version_tweak"}, "version", <<>>),
  Making("string", {"version_to_string"}, "version", <<>>)}

CallExtern == {
  Constructing({"extern_constructor_name"}, <<"string">>, "extern"),
  Making("bool", {"extern_has_value"}, "extern", <<>>),
  Making("its_value", {"extern_value"}, "extern", <<>>)}

AddToList == {
  Changing({"list_ctor"}, "list", <<>>, "list"),
  Acting({"list_push_back_value", "list_push_front_value"}, "list", <<"any">>),
  Acting({"list_push_back_list", "list_push_front_list"}, "list", <<"list">>),
  Acting({"list_pop_back", "list_pop_front"}, "list", <<>>),
  Making("int", {"list_size"}, "list", <<>>)}

ChangeList == {
  Returning("reference_to_element", {"list_at"}, "list", <<"int">>, "same"),
  Returning("reference_to_element", {"list_front", "list_back"}, "list", <<>>, "same"),
  Acting({"list_insert_pos_value"}, "list", <<"int", "any">>),
  Acting({"list_insert_pos_list"}, "list", <<"int", "list">>),
  Acting({"list_erase_pos"}, "list", <<"int">>),
  Acting({"list_erase_pos_count"}, "list", <<"int", "int">>),
  Making("int", {"list_remove_value"}, "list", <<"like">>),
  Making("int", {"list_remove_value_count", "list_remove_last_value_count"}, "list", <<"like", "int">>),
  Acting({"list_clear"}, "list", <<>>),
  Acting({"list_resize"}, "list", <<"int">>),
  Acting({"list_sort", "list_reverse"}, "list", <<>>)}

SearchList == {
  Making("int", {"list_min", "list_max"}, "list", <<>>),
  Making("list", {"list_sublist_pos"}, "list", <<"int">>),
  Making("list", {"list_sublist_pos_count"}, "list", <<"int", "int">>),
  Making("bool", {"list_empty"}, "list", <<>>),
  Making("int", {"list_find_value"}, "list", <<"like">>),
  Making("int", {"list_find_value_pos"}, "list", <<"like", "int">>),
  Making("list", {"list_operator_plus_value"}, "list", <<"any">>),
  Making("list", {"list_operator_plus_list"}, "list", <<"list">>),
  Changing({"list_operator_plus_equal_value"}, "list", <<"any">>, "list"),
  Changing({"list_operator_plus_equal_list"}, "list", <<"list">>, "list")}

CallProject == {
  Returning("receiver", {"project_ctor_name"}, "project", <<"string">>, "project"),
  Making("string", {"project_name"}, "project", <<>>),
  Making("executable", {"project_add_executable"}, "project", <<"string", "list">>),
  Making("library", {"project_add_library"}, "project", <<"string", "list">>),
  Making("library", {"project_find_library"}, "any", <<"string">>)}

CallLibrary == {
  Making("string", {"library_name"}, "library", <<>>),
  Acting({"library_link_to"}, "library", <<"library">>),
  Acting({"library_link_to_visibility"}, "library", <<"library", "enum">>),
  Acting({"library_include_directories", "library_compile_definitions",
             "library_compile_options", "library_add_sources"}, "library", <<"list">>),
  Acting({"library_include_directories_visibility", "library_compile_definitions_visibility",
             "library_compile_options_visibility", "library_add_sources_visibility"},
            "library", <<"list", "enum">>)}

CallExecutable == {
  Making("string", {"executable_name"}, "executable", <<>>),
  Acting({"executable_link_to"}, "executable", <<"library">>),
  Acting({"executable_link_to_visibility"}, "executable", <<"library", "enum">>),
  Acting({"executable_include_directories", "executable_compile_definitions",
             "executable_compile_options", "executable_add_sources"}, "executable", <<"list">>),
  Acting({"executable_include_directories_visibility", "executable_compile_definitions_visibility",
             "executable_compile_options_visibility", "executable_add_sources_visibility"},
            "executable", <<"list", "enum">>)}

CallEnum == {
  Making("string", {"enum_to_string"}, "enum", <<>>),
  Changing({"enum_operator_equal"}, "any", <<"enum">>, "enum"),
  Making("bool", {"enum_operator_equalequal", "enum_operator_exclaimequal"}, "enum", <<"enum">>)}

\* The argument is copied and takes the place of the members.
CallClass == {
  Changing({"user_type_operator_equal"}, "any", <<"members">>, "members")}

CallOptionSwapped == { \* mutant
  Constructing({"option_ctor_description"}, <<"string", "string">>, "option"),
  Constructing({"option_ctor_description_value"}, <<"string", "bool", "string">>, "option"),
  Making("bool", {"option_value"}, "option", <<>>)}

CallOption == {
  Constructing({"option_ctor_description"}, <<"string", "string">>, "option"),
  Constructing({"option_ctor_description_value"}, <<"string", "string", "bool">>, "option"),
  Making("bool", {"option_value"}, "option", <<>>)}

CallCMake == {
  Acting({"cmake_minimum_required"}, "any", <<"version">>),
  Acting({"cmake_message", "cmake_warning", "cmake_error", "cmake_fatal_error"}, "any", <<"string">>),
  Making("cxx_compiler_info", {"cmake_get_cxx_compiler_info"}, "any", <<>>),
  Acting({"cmake_install_executable", "cmake_add_test"}, "any", <<"executable">>),
  Acting({"cmake_install_executable_destination"}, "any", <<"executable", "string">>),
  Acting({"cmake_install_library"}, "any", <<"library">>),
  Acting({"cmake_install_library_destination"}, "any", <<"library", "string">>),
  Acting({"cmake_enable_ctest"}, "any", <<>>)}

CallCMakeFiles == {
  Making("string", {"cmake_root_source_dir", "cmake_current_binary_dir", "cmake_current_source_dir",
                    "cmake_ctest_command"}, "any", <<>>),
  Acting({"cmake_add_custom_command"}, "any", <<"list", "string">>),
  Acting({"cmake_make_directory"}, "any", <<"string">>),
  Acting({"cmake_set_old_style_variable"}, "any", <<"string", "string">>),
  Making("string", {"cmake_get_old_style_variable"}, "any", <<"string">>),
  Making("system_info", {"cmake_get_system_info"}, "any", <<>>),
  Acting({"cmake_add_custom_target"}, "any", <<"string", "list">>)}

(* The two switches of builtin_function_caller::call_member and call.       *)
Handlers ==
  CallBool \union CallInt \union CompareInt \union CallDouble \union ReadString \union ChangeString
  \union SearchString \union ConvertString \union CallVersion \union CallExtern \union AddToList
  \union ChangeList \union SearchList \union CallProject \union CallLibrary \union CallExecutable
  \union CallEnum \union CallClass \union CallOption \union CallCMake \union CallCMakeFiles
====
