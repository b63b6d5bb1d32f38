------------------------------- MODULE Stubs -------------------------------
(***************************************************************************)
(* The exercises as they are shipped: which routines and constants of each *)
(* src/<module>.c do not compile yet, because they are TODO (a failing     *)
(* _Static_assert), TODO_PREDICT (declared nowhere), or, in pointers.c,    *)
(* leave a parameter unused under -Wall -Wextra -Werror.  Nothing else is  *)
(* in these files: they have no other behaviour.  And the modules of each  *)
(* project in the order in which its Makefile runs them.                   *)
(***************************************************************************)
EXTENDS TLC

-----------------------------------------------------------------------------
(* ProperC/src *)

pointers_todo == {"my_memmove", "rotate_left"}
strings_todo == {"my_strlen", "my_strcpy", "my_strncpy", "my_strcmp",
                 "my_strcat", "my_strchr", "my_strstr", "str_reverse",
                 "is_palindrome"}
memory_todo == {"my_strdup", "vec_init", "vec_push", "vec_pop", "vec_get",
                "vec_free"}

ProperC_todo ==
  [pointers |-> pointers_todo, strings |-> strings_todo,
   memory |-> memory_todo, bits |-> {}, structs |-> {}, funcptr |-> {},
   linkedlist |-> {}, safety |-> {}, ub |-> {}]

ProperC_MODULES == <<"pointers", "strings", "memory", "bits", "structs",
                     "funcptr", "linkedlist", "safety", "ub">>

-----------------------------------------------------------------------------
(* ProperDS/src *)

vector_todo == {"vector_init", "vector_free", "vector_push", "vector_pop",
                "vector_get", "vector_set", "vector_insert_at",
                "vector_remove_at", "vector_len", "vector_cap",
                "vector_validate"}
sll_todo == {"sll_push_front", "sll_push_back", "sll_find",
             "sll_remove_value", "sll_reverse", "sll_length", "sll_free"}
dll_todo == {"dll_init", "dll_free", "dll_push_front", "dll_push_back",
             "dll_pop_front", "dll_pop_back", "dll_length", "dll_validate"}
intrusive_todo == {"list_head_init", "list_add", "list_add_tail", "list_del",
                   "list_empty"}
stackqueue_todo == {"stack_init", "stack_free", "stack_push", "stack_pop",
                    "stack_peek", "stack_is_empty", "queue_init",
                    "queue_free", "queue_enqueue", "queue_dequeue",
                    "queue_is_full", "queue_is_empty"}
deque_todo == {"deque_init", "deque_free", "deque_push_front",
               "deque_push_back", "deque_pop_front", "deque_pop_back",
               "deque_len", "deque_validate"}
hashchain_todo == {"hashchain_fnv1a", "hashchain_init", "hashchain_free",
                   "hashchain_put", "hashchain_get", "hashchain_delete",
                   "hashchain_len", "hashchain_validate"}
hashopen_todo == {"hashopen_fnv1a", "hashopen_init", "hashopen_free",
                  "hashopen_put", "hashopen_get", "hashopen_delete",
                  "hashopen_len", "hashopen_validate"}
bst_todo == {"bst_init", "bst_free", "bst_insert", "bst_contains",
             "bst_remove", "bst_min", "bst_max", "bst_size", "bst_inorder",
             "bst_validate"}
avl_todo == {"avl_init", "avl_free", "avl_insert", "avl_contains",
             "avl_remove", "avl_height", "avl_size", "avl_inorder",
             "avl_validate"}
heap_todo == {"heap_init", "heap_free", "heap_push", "heap_pop_min",
              "heap_peek", "heap_size", "heap_from_array", "heap_sort",
              "heap_validate"}
trie_todo == {"trie_init", "trie_free", "trie_insert", "trie_contains",
              "trie_starts_with", "trie_remove"}
unionfind_todo == {"uf_init", "uf_free", "uf_find", "uf_union",
                   "uf_connected", "uf_count"}
graph_todo == {"graph_init", "graph_free", "graph_add_edge",
               "graph_bfs_order", "graph_dfs_order", "graph_dfs_order_iter",
               "graph_topo_sort", "graph_has_cycle"}
shortestpath_todo == {"wgraph_init", "wgraph_free", "wgraph_add_edge",
                      "dijkstra", "bellman_ford"}
mst_todo == {"kruskal", "prim"}
sorting_todo == {"insertion_sort", "merge_sort", "quick_sort",
                 "heap_sort_arr", "hybrid_sort"}
search_todo == {"binary_search_idx", "lower_bound", "upper_bound"}
strdp_todo == {"prefix_function", "kmp_search", "edit_distance", "lis_length",
               "coin_change_min", "knapsack_01"}

ProperDS_todo ==
  [vector |-> vector_todo, sll |-> sll_todo, dll |-> dll_todo,
   intrusive |-> intrusive_todo, stackqueue |-> stackqueue_todo,
   deque |-> deque_todo, hashchain |-> hashchain_todo,
   hashopen |-> hashopen_todo, bst |-> bst_todo, avl |-> avl_todo,
   heap |-> heap_todo, trie |-> trie_todo, unionfind |-> unionfind_todo,
   graph |-> graph_todo, shortestpath |-> shortestpath_todo, mst |-> mst_todo,
   sorting |-> sorting_todo, search |-> search_todo, strdp |-> strdp_todo]

ProperDS_MODULES == <<"vector", "sll", "dll", "intrusive", "stackqueue",
                      "deque", "hashchain", "hashopen", "bst", "avl", "heap",
                      "trie", "unionfind", "graph", "shortestpath", "mst",
                      "sorting", "search", "strdp">>

-----------------------------------------------------------------------------
(* ProperInterview/src *)

strfns_todo == {"my_strlen", "my_strcpy", "my_strcmp", "my_memcpy",
                "my_strcat"}
cstrings_todo == {"words_reverse", "my_atoi", "str_count_words"}
dynarr_todo == {"da_init", "da_free", "da_push", "da_pop", "da_get", "da_set",
                "da_insert_at", "da_remove_at", "da_len", "da_cap"}
hashmap_todo == {"hm_create", "hm_destroy", "hm_put", "hm_get", "hm_del",
                 "hm_len"}
lru_todo == {"lru_create", "lru_destroy", "lru_get", "lru_put", "lru_len"}

ProperInterview_todo ==
  [strfns |-> strfns_todo, cstrings |-> cstrings_todo, dynarr |-> dynarr_todo,
   hashmap |-> hashmap_todo, lru |-> lru_todo]

ProperInterview_MODULES == <<"strfns", "cstrings", "dynarr", "hashmap",
                             "lru">>

-----------------------------------------------------------------------------
(* ProperMachine/src *)

promotions_todo == {"PRED_NEG1_LT_1U", "PRED_SIZEOF_CHAR_LITERAL",
                    "PRED_UNSIGNED_WRAP_IS_UINTMAX", "PRED_NEG7_DIV_2",
                    "PRED_NEG7_MOD_2", "PRED_UCHAR_300", "PRED_TRUNC_3_99",
                    "PRED_SIZEOF_SHORT_PLUS_SHORT", "PRED_A_PLUS_1",
                    "PRED_SIZEOF_MINUS_5_GT_0", "PRED_SHL31_AS_LL_IS_2P31",
                    "PRED_NEG1_PLUS_1U_IS_ZERO", "PRED_DIGIT_7_MINUS_0",
                    "PRED_SIZEOF_NO_SIDE_EFFECT"}
floats_todo == {"PRED_POINT1_PLUS_POINT2_EQ_POINT3",
                "PRED_HALF_PLUS_QUARTER_EQ_3QUARTERS",
                "PRED_FLOAT_16777217_EQ_16777216", "PRED_TRUNC_NEG_1_9",
                "PRED_NAN_EQ_NAN", "PRED_ONE_OVER_ZERO_IS_INF", "float_bits",
                "bits_float", "my_isnan", "float_sign_bit", "ulp_diff"}
layout_todo == {"PRED_SIZEOF_CHAR_INT", "PRED_OFFSETOF_CHAR_INT_I",
                "PRED_SIZEOF_CHAR_INT_CHAR", "PRED_SIZEOF_INT_CHAR_CHAR",
                "PRED_SIZEOF_CHAR_DOUBLE", "PRED_OFFSETOF_CHAR_DOUBLE_D",
                "PRED_SIZEOF_NESTED", "PRED_OFFSETOF_NESTED_INNER",
                "PRED_SIZEOF_JUST_CHAR", "PRED_SIZEOF_LONGLONG_CHAR",
                "PRED_SIZEOF_CHARS_SHORT", "PRED_OFFSETOF_CHARS_SHORT_S",
                "PRED_ARRAY2_STRIDE_BYTES"}

ProperMachine_todo ==
  [promotions |-> promotions_todo, floats |-> floats_todo,
   layout |-> layout_todo]

ProperMachine_MODULES == <<"promotions", "floats", "layout">>

-----------------------------------------------------------------------------
(* ProperNet/src *)

byteorder_todo == {"my_htons", "my_ntohs", "my_htonl", "my_ntohl"}
urlparse_todo == {"url_parse"}
httparse_todo == {"http_parse_request", "http_get_header"}
sockets_todo == {"send_all", "recv_until", "tcp_listen_loopback",
                 "tcp_connect_loopback"}
mux_todo == {"echo_poll_serve"}

ProperNet_todo ==
  [byteorder |-> byteorder_todo, urlparse |-> urlparse_todo,
   httparse |-> httparse_todo, sockets |-> sockets_todo, mux |-> mux_todo]

ProperNet_MODULES == <<"byteorder", "urlparse", "httparse", "sockets", "mux">>

-----------------------------------------------------------------------------
(* ProperOS/src *)

fileio_todo == {"read_all", "write_all", "copy_file", "file_size_fd"}
procs_todo == {"run_command", "spawn_capture"}
pipes_todo == {"trim_ws", "pipeline2", "pipeline3"}
signals_todo == {"install_handler", "block_signal", "unblock_signal",
                 "reap_children_count", "selfpipe_init", "selfpipe_wait"}
threads_todo == {"mutex_counter_run", "bq_init", "bq_push", "bq_pop",
                 "bq_destroy", "tpool_run"}
atomics_todo == {"spin_lock", "spin_unlock", "spsc_init", "spsc_push",
                 "spsc_pop", "spsc_destroy"}
mmapio_todo == {"mmap_count_byte", "mmap_upper_inplace"}
fsmeta_todo == {"walk_tree", "du_bytes", "is_same_file"}
procfs_todo == {"count_maps_regions", "read_status_field"}

ProperOS_todo ==
  [fileio |-> fileio_todo, procs |-> procs_todo, pipes |-> pipes_todo,
   signals |-> signals_todo, threads |-> threads_todo,
   atomics |-> atomics_todo, mmapio |-> mmapio_todo, fsmeta |-> fsmeta_todo,
   procfs |-> procfs_todo]

ProperOS_MODULES == <<"fileio", "procs", "pipes", "signals", "threads",
                      "atomics", "mmapio", "fsmeta", "procfs">>

-----------------------------------------------------------------------------
StubTodo == ProperC_todo @@ ProperDS_todo @@ ProperInterview_todo
              @@ ProperMachine_todo @@ ProperNet_todo @@ ProperOS_todo

\* Compiles, but fails its section of the test: swap_int overwrites *b only, my_memcpy
\* returns NULL, five of the routines of bits.c return 5.
pointers_wrong == {"swap_int", "my_memcpy"}
bits_wrong == {"reverse_bits", "set_bit", "clear_bit", "toggle_bit",
               "count_trailing_zeros"}

StubWrong == [m \in DOMAIN StubTodo |->
                IF m = "pointers" THEN pointers_wrong
                ELSE IF m = "bits" THEN bits_wrong ELSE {}]
=============================================================================
