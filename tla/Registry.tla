------------------------------- MODULE Registry -------------------------------
(***************************************************************************)
(* The argument classes that src/src/lograder/process/registry declares    *)
(* for the tools it can run.  A field stands for the block of tokens it    *)
(* emits; what the tokens say is left out.                                 *)
(***************************************************************************)
EXTENDS Integers, Sequences, SequencesExt

\* at: its declared position, if any.  emits: whether an instance always,
\* maybe or never has a block for the field.
Field(name, at, emits) == [name |-> name, at |-> at, emits |-> emits]
Option(name) == Field(name, {}, "maybe")
OptionAt(name, p) == Field(name, {p}, "maybe")
Required(name) == Field(name, {}, "always")
RequiredAt(name, p) == Field(name, {p}, "always")
Options(names) == [i \in DOMAIN names |-> Option(names[i])]
\* Settings that shape no block of their own.
Silent(names) == [i \in DOMAIN names |-> Field(names[i], {}, "never")]

\* rules: what the model validators ask of the fields that are set.
\* checked: fields some of whose values a field validator refuses.
\* bare: text fields without one, which a blank text turns into an empty token.
Class(fields, rules, checked, bare) ==
  [fields |-> fields, rules |-> rules, checked |-> checked, bare |-> bare]

\* A subclass declares its fields after the inherited ones.
Extend(class, fields, rules, checked, bare) ==
  Class(class.fields \o fields, class.rules \union rules, class.checked \union checked, class.bare \union bare)

Rule(kind, one, others) == [kind |-> kind, one |-> one, others |-> others]
AtMostOne(names) == Rule("at most one", "", names)
ExactlyOne(names) == Rule("exactly one", "", names)
NotWith(name, names) == Rule("not with", name, names)
Needs(name, other) == Rule("needs", name, {other})
Exactly(name, names) == Rule("exactly with", name, names)
Brings(name, other) == Rule("brings", name, {other})
PipelineFlags == AtMostOne({"preprocess_only", "compile_only", "assemble_only"})

CompilerArgs ==
  Class(<<Required("input"), Required("output"), Required("standard")>> \o Options(<<"preprocess_only",
    "assemble_only", "compile_only", "debug_symbols", "sanitizers", "include_dirs", "library_dirs",
    "libraries", "defines", "compile_options", "linker_options", "warnings_all", "warnings_extra",
    "warnings_pedantic", "warnings_error">>),
    {PipelineFlags, NotWith("preprocess_only", {"libraries", "library_dirs", "linker_options"})},
      {"compile_options", "defines", "include_dirs", "input", "libraries", "library_dirs",
      "linker_options", "output", "sanitizers"}, {})

ArArgs ==
  Class(<<RequiredAt("flags", 0), RequiredAt("archive", 1), OptionAt("position_member", 2)>> \o
    Options(<<"files">>) \o Silent(<<"insert_after", "insert_before">>),
    {AtMostOne({"insert_after", "insert_before"}), Exactly("position_member", {"insert_after",
      "insert_before"})}, {"archive", "files", "position_member"}, {})

BashCommonArgs ==
  Class(Options(<<"login", "interactive", "no_profile", "no_rc", "restricted", "posix", "errexit",
    "nounset", "xtrace">>),
    {Needs("no_profile", "login"), NotWith("no_rc", {"interactive"})}, {}, {})

BashCommandArgs ==
  Extend(BashCommonArgs, <<RequiredAt("command", -1)>>, {}, {"command"}, {})

BashScriptArgs ==
  Extend(BashCommonArgs, <<RequiredAt("script", -1)>>, {}, {"script"}, {})

CHModArgs ==
  Class(<<OptionAt("mode", 0)>> \o Options(<<"reference", "recursive", "force", "verbose", "changes",
    "no_dereference">>) \o <<RequiredAt("paths", -1)>>,
    {ExactlyOne({"mode", "reference"}), AtMostOne({"verbose", "changes"})}, {"mode", "paths",
      "reference"}, {})

ClangCompilerArgs ==
  Class(<<Required("input")>> \o Options(<<"output", "standard", "preprocess_only", "assemble_only",
    "compile_only", "debug_symbols", "optimization", "sanitizers", "include_dirs", "library_dirs",
    "libraries", "defines", "compile_options", "linker_options", "warnings_all", "warnings_extra",
    "warnings_pedantic", "warnings_error", "add_opts">>),
    {PipelineFlags}, {"add_opts", "compile_options", "include_dirs", "input", "libraries",
      "library_dirs", "linker_options", "output", "sanitizers"}, {})

ClangArgs == ClangCompilerArgs

ClangXXArgs ==
  Extend(ClangCompilerArgs, Options(<<"permissive">>), {}, {}, {})

CMakeConfigureArgs ==
  Class(<<Required("source_dir"), Required("build_dir")>> \o Options(<<"generator", "toolchain_file",
    "install_prefix", "build_type", "preset", "cache_entries", "warnings_as_errors",
    "warn_uninitialized", "warn_unused_vars", "fresh", "trace", "trace_expand", "debug_output",
    "debug_find">>) \o Silent(<<"own_source_dir", "own_build_dir">>),
    {NotWith("preset", {"own_source_dir", "own_build_dir"}), Brings("trace_expand", "trace")},
      {"build_dir", "build_type", "cache_entries", "generator", "install_prefix", "preset",
      "source_dir", "toolchain_file"}, {})

CMakeBuildArgs ==
  Class(<<Required("build_dir")>> \o Options(<<"target", "config", "parallel", "clean_first", "verbose",
    "native_args">>),
    {}, {"build_dir", "config", "native_args", "parallel", "target"}, {})

CMakeInstallArgs ==
  Class(<<Required("build_dir")>> \o Options(<<"config", "component", "prefix", "strip">>),
    {}, {"build_dir", "component", "config", "prefix"}, {})

CPPArgs ==
  Class(<<RequiredAt("input", -1)>> \o Options(<<"output", "language", "standard",
    "suppress_line_markers", "include_dirs", "quote_include_dirs", "system_include_dirs",
    "no_standard_includes", "no_standard_cxx_includes", "defines", "undefines", "undef",
    "include_files", "imacros_files", "dependency_only", "dependency_no_system", "dependency_file",
    "dependency_phony_targets", "suppress_warnings", "warnings_as_errors", "traditional", "trigraphs",
    "verbose">>),
    {}, {}, {})

CTestArgs ==
  Class(Options(<<"test_regex", "exclude_regex", "label_regex", "exclude_label_regex", "tests_index",
    "rerun_failed", "run_disabled", "parallel", "timeout", "stop_on_failure", "schedule_random",
    "repeat", "build_config", "test_dir", "overwrite", "output_junit", "output_on_failure",
    "no_compress_output", "verbose", "extra_verbose", "quiet", "show_only", "print_labels">>),
    {}, {}, {"test_regex", "exclude_regex", "label_regex", "exclude_label_regex", "tests_index",
      "repeat", "build_config", "overwrite"})

CURLArgs ==
  Class(<<RequiredAt("url", -1)>> \o Options(<<"output", "response_headers_only", "follow_redirects",
    "fail", "silent", "show_error", "method", "data", "headers">>),
    {Brings("show_error", "silent")}, {"data", "headers", "method", "output", "url"}, {})

GasArgs ==
  Class(<<Required("input")>> \o Options(<<"output", "architecture", "cpu", "debug", "include_dirs",
    "defines", "undefines", "warnings", "fatal_warnings", "listing", "compress_debug", "add_opts">>),
    {}, {"add_opts", "include_dirs", "input", "listing", "output", "undefines"}, {})

GNUCompilerArgs ==
  Extend(CompilerArgs, Options(<<"optimization_level", "position_independent_code", "shared", "pipe",
    "pthread">>),
    {}, {}, {})

GCCArgs == GNUCompilerArgs

GXXArgs ==
  Extend(GNUCompilerArgs, Options(<<"permissive">>), {}, {}, {})

GprofArgs ==
  Class(<<RequiredAt("executable", 0), OptionAt("gmon_file", 1)>> \o Options(<<"flat_profile",
    "call_graph", "annotate_source", "no_static", "no_graph", "ignore_non_functions", "file_format",
    "demangle", "display_unused", "line", "function_ordering", "time", "suppress_call_graph",
    "suppress_flat_profile", "add_opts">>),
    {}, {"add_opts", "annotate_source", "executable", "gmon_file"}, {})

GprofngCollectArgs ==
  Class(<<RequiredAt("subcommand", 0), RequiredAt("mode", 1)>> \o Options(<<"output", "experiment",
    "follow_children", "trace_children", "sample", "heap", "duration", "add_opts">>) \o
    <<OptionAt("command", -1)>>,
    {}, {}, {"add_opts", "command"})

GprofngDisplayArgs ==
  Class(<<RequiredAt("subcommand", 0), RequiredAt("experiment", 1)>> \o Options(<<"functions",
    "call_tree", "source", "metrics", "add_opts">>),
    {}, {}, {"metrics", "add_opts"})

GTestArgs ==
  Class(Options(<<"gtest_output", "gtest_filter", "gtest_also_run_disabled_tests", "gtest_repeat",
    "gtest_shuffle", "gtest_random_seed", "gtest_recreate_environments_when_repeating",
    "gtest_fail_fast", "gtest_brief", "gtest_print_time", "gtest_death_test_style",
    "gtest_list_tests">>),
    {}, {}, {})

LdArgs ==
  Class(<<Required("input")>> \o Options(<<"output", "entry", "shared", "static", "pie", "library_dirs",
    "libraries", "rpath", "script", "map_file", "strip_all", "build_id", "gc_sections",
    "export_dynamic", "undefined", "defines", "add_opts">>),
    {AtMostOne({"shared", "static", "pie"})}, {"add_opts", "input", "libraries", "library_dirs",
      "output", "rpath", "undefined"}, {"entry"})

LldElfArgs ==
  Class(<<Required("input")>> \o Options(<<"output", "entry", "shared", "static", "pie", "library_dirs",
    "libraries", "rpath", "script", "map_file", "gc_sections", "icf", "build_id", "threads",
    "undefined", "defines", "add_opts">>),
    {AtMostOne({"shared", "static", "pie"})}, {"add_opts", "input", "libraries", "library_dirs",
      "output", "rpath", "undefined"}, {"entry"})

LldLinkArgs ==
  Class(<<RequiredAt("subcommand", 0), Required("input")>> \o Options(<<"output", "debug", "dll",
    "libpath", "entry", "subsystem", "add_opts">>),
    {}, {"input"}, {"add_opts"})

MakefileArgs ==
  Class(Options(<<"directory", "makefile", "jobs", "always_make", "keep_going", "silent", "just_print",
    "print_directory", "variables">>) \o <<OptionAt("target", -1)>>,
    {NotWith("silent", {"print_directory"})}, {"directory", "jobs", "makefile", "target", "variables"},
      {})

MypyArgs ==
  Class(Options(<<"files", "strict", "disallow_untyped_defs", "disallow_incomplete_defs",
    "check_untyped_defs", "warn_return_any", "no_implicit_optional", "ignore_missing_imports",
    "python_version", "config_file", "output", "show_error_codes", "show_column_numbers",
    "no_color_output", "no_error_summary">>),
    {}, {}, {"python_version", "output"})

NasmArgs ==
  Class(<<Required("input")>> \o Options(<<"output", "format", "debug", "include_dirs", "defines",
    "undefines", "warnings", "disable_warnings", "list_file", "optimize", "preproc_only", "add_opts">>),
    {}, {"add_opts", "disable_warnings", "include_dirs", "input", "list_file", "output", "undefines",
      "warnings"}, {})

NmArgs ==
  Class(<<OptionAt("files", -1)>> \o Options(<<"dynamic", "extern_only", "undefined_only",
    "defined_only", "format", "portability", "print_file_name", "print_size", "line_numbers",
    "numeric_sort", "reverse_sort", "no_sort", "size_sort", "demangle", "radix">>),
    {}, {}, {"radix"})

PerfRecordArgs ==
  Class(<<RequiredAt("subcommand", 0)>> \o Options(<<"output", "frequency", "call_graph", "system_wide",
    "inherit", "pid", "cpu", "event", "add_opts">>) \o <<OptionAt("command", -1)>>,
    {}, {}, {"call_graph", "cpu", "add_opts", "command"})

PerfStatArgs ==
  Class(<<RequiredAt("subcommand", 0)>> \o Options(<<"event", "system_wide", "verbose", "repeat",
    "output">>) \o <<OptionAt("command", -1)>>,
    {}, {}, {"command"})

PerfReportArgs ==
  Class(<<RequiredAt("subcommand", 0)>> \o Options(<<"input_file", "stdio", "call_graph", "sort",
    "add_opts">>),
    {}, {}, {"call_graph", "sort", "add_opts"})

PerfScriptArgs ==
  Class(<<RequiredAt("subcommand", 0)>> \o Options(<<"input_file", "fields", "add_opts">>),
    {}, {}, {"fields", "add_opts"})

PytestArgs ==
  Class(Options(<<"paths", "keyword", "marker", "max_fail", "exit_first", "verbose", "quiet", "capture",
    "show_capture", "disable_warnings", "show_locals", "durations", "durations_min", "junit_xml",
    "junit_prefix", "traceback", "color", "last_failed", "failed_first", "new_first", "cache_clear",
    "stepwise", "stepwise_skip", "collect_only", "ignore", "ignore_glob", "deselect", "root_dir",
    "conf_cut_dir", "import_mode", "base_temp", "python_warnings", "env", "add_opts">>),
    {NotWith("verbose", {"quiet"}), Needs("stepwise_skip", "stepwise")}, {"add_opts", "base_temp",
      "capture", "color", "conf_cut_dir", "deselect", "durations", "durations_min", "env", "ignore",
      "ignore_glob", "import_mode", "junit_prefix", "junit_xml", "keyword", "marker", "max_fail",
      "paths", "python_warnings", "root_dir", "show_capture", "traceback"}, {})

TyArgs ==
  Class(<<RequiredAt("subcommand", 0)>> \o Options(<<"files", "error", "warn", "ignore",
    "python_version", "config_file", "output_format", "color", "exit_zero">>),
    {}, {}, {})

ValgrindArgs ==
  Class(<<RequiredAt("command", -1)>> \o Options(<<"xml", "xml_file", "leak_check", "quiet",
    "child_silent_after_fork", "track_origins", "error_exitcode">>),
    {Needs("xml_file", "xml")}, {"command", "error_exitcode", "xml_file"}, {})

Registered == [
  ArArgs |-> ArArgs, BashCommandArgs |-> BashCommandArgs, BashScriptArgs |-> BashScriptArgs,
  CHModArgs |-> CHModArgs, ClangArgs |-> ClangArgs, ClangXXArgs |-> ClangXXArgs,
  CMakeConfigureArgs |-> CMakeConfigureArgs, CMakeBuildArgs |-> CMakeBuildArgs,
  CMakeInstallArgs |-> CMakeInstallArgs, CPPArgs |-> CPPArgs, CTestArgs |-> CTestArgs,
  CURLArgs |-> CURLArgs, GasArgs |-> GasArgs, GCCArgs |-> GCCArgs, GXXArgs |-> GXXArgs,
  GprofArgs |-> GprofArgs, GprofngCollectArgs |-> GprofngCollectArgs,
  GprofngDisplayArgs |-> GprofngDisplayArgs, GTestArgs |-> GTestArgs, LdArgs |-> LdArgs,
  LldElfArgs |-> LldElfArgs, LldLinkArgs |-> LldLinkArgs, MakefileArgs |-> MakefileArgs,
  MypyArgs |-> MypyArgs, NasmArgs |-> NasmArgs, NmArgs |-> NmArgs,
  PerfRecordArgs |-> PerfRecordArgs, PerfStatArgs |-> PerfStatArgs,
  PerfReportArgs |-> PerfReportArgs, PerfScriptArgs |-> PerfScriptArgs, PytestArgs |-> PytestArgs,
  TyArgs |-> TyArgs, ValgrindArgs |-> ValgrindArgs
]

------------------------------------------------------------------------------
(* The executables, with the argument classes each is registered for.      *)
(* script: whether it declares an install script (every one for posix),    *)
(* and with an install location of its own or without.                     *)

Executable(classes, script) == [classes |-> classes, script |-> script]

ArExecutable == Executable({"ArArgs"}, "unplaced")
BashExecutable == Executable({"BashCommandArgs", "BashScriptArgs"}, "none")
CHModExecutable == Executable({"CHModArgs"}, "none")
ClangExecutable == Executable({"ClangArgs"}, "unplaced")
ClangXXExecutable == Executable({"ClangXXArgs"}, "unplaced")
CMakeExecutable == Executable({"CMakeConfigureArgs", "CMakeBuildArgs", "CMakeInstallArgs"}, "placed")
CPPExecutable == Executable({"CPPArgs"}, "none")
CTestExecutable == Executable({"CTestArgs"}, "unplaced")
CURLExecutable == Executable({"CURLArgs"}, "unplaced")
GasExecutable == Executable({"GasArgs"}, "unplaced")
GCCExecutable == Executable({"GCCArgs"}, "unplaced")
GXXExecutable == Executable({"GXXArgs"}, "unplaced")
GprofExecutable == Executable({"GprofArgs"}, "unplaced")
GprofngExecutable == Executable({"GprofngCollectArgs", "GprofngDisplayArgs"}, "placed")
GTestExecutable == Executable({"GTestArgs"}, "none")
LdExecutable == Executable({"LdArgs"}, "unplaced")
LldExecutable == Executable({"LldElfArgs", "LldLinkArgs"}, "unplaced")
MakefileExecutable == Executable({"MakefileArgs"}, "unplaced")
MypyExecutable == Executable({"MypyArgs"}, "unplaced")
NasmExecutable == Executable({"NasmArgs"}, "unplaced")
NmExecutable == Executable({"NmArgs"}, "unplaced")
PerfExecutable == Executable({"PerfRecordArgs", "PerfStatArgs", "PerfReportArgs", "PerfScriptArgs"}, "unplaced")
PytestExecutable == Executable({"PytestArgs"}, "placed")
TyExecutable == Executable({"TyArgs"}, "unplaced")
ValgrindExecutable == Executable({"ValgrindArgs"}, "placed")

Executables == [
  ArExecutable |-> ArExecutable, BashExecutable |-> BashExecutable,
  CHModExecutable |-> CHModExecutable, ClangExecutable |-> ClangExecutable,
  ClangXXExecutable |-> ClangXXExecutable, CMakeExecutable |-> CMakeExecutable,
  CPPExecutable |-> CPPExecutable, CTestExecutable |-> CTestExecutable,
  CURLExecutable |-> CURLExecutable, GasExecutable |-> GasExecutable,
  GCCExecutable |-> GCCExecutable, GXXExecutable |-> GXXExecutable,
  GprofExecutable |-> GprofExecutable, GprofngExecutable |-> GprofngExecutable,
  GTestExecutable |-> GTestExecutable, LdExecutable |-> LdExecutable,
  LldExecutable |-> LldExecutable, MakefileExecutable |-> MakefileExecutable,
  MypyExecutable |-> MypyExecutable, NasmExecutable |-> NasmExecutable,
  NmExecutable |-> NmExecutable, PerfExecutable |-> PerfExecutable,
  PytestExecutable |-> PytestExecutable, TyExecutable |-> TyExecutable,
  ValgrindExecutable |-> ValgrindExecutable
]
===============================================================================
