-------------------------------- MODULE Abi ---------------------------------
(* The system call interface seen from both sides: the wrappers of the SDK    *)
(* (sdk/src/lib.rs), each with the number and how many arguments it passes,   *)
(* the registers they travel in, and the kernel's dispatch, which picks a     *)
(* handler by number and gives it as many registers as it takes.              *)
EXTENDS Integers, Sequences, SequencesExt

VARIABLES
    regs,       \* what each argument register holds: the place of an argument, or "left"
    call,       \* the call under way: its number's name and how many arguments it passes
    handled,    \* the handler the kernel chose and the arguments it was given
    abi_result  \* what the wrapper made of the answer

abi_vars == <<regs, call, handled, abi_result>>

(* ------------------------------------------------------------ the numbers *)
SYS == [
    CHANNEL_CREATE |-> 1, CHANNEL_SEND |-> 2, CHANNEL_RECEIVE |-> 3, CHANNEL_CALL |-> 4,
    CHANNEL_REPLY |-> 5, HANDLE_CLOSE |-> 16, HANDLE_DUPLICATE |-> 17, HANDLE_TRANSFER |-> 18,
    PROCESS_CREATE |-> 48, PROCESS_START |-> 49, PROCESS_EXIT |-> 50, PROCESS_WAIT |-> 51, BRK |-> 52,
    MMAP |-> 53, MUNMAP |-> 54, GETPID |-> 55, GETPPID |-> 56, LIST_TASKS |-> 61, THREAD_CREATE |-> 64,
    THREAD_EXIT |-> 65, THREAD_YIELD |-> 66, KILL |-> 68, SIGNAL |-> 69, SIGRETURN |-> 70,
    SIGPROCMASK |-> 74, MPROTECT |-> 75, POLL |-> 76, MODULE_LOAD |-> 32, MODULE_UNLOAD |-> 33,
    CONSOLE_WRITE |-> 240, CONSOLE_READ |-> 244, SLEEP |-> 241, EVENT_CREATE |-> 242, EVENT_SIGNAL |-> 243,
    EVENT_WAIT |-> 251, EVENT_DESTROY |-> 252, ENDPOINT_REGISTER |-> 245, ENDPOINT_DISCOVER |-> 246,
    FS_OPEN |-> 247, FS_READ |-> 248, FS_WRITE |-> 249, FS_CLOSE |-> 250, NET_SEND |-> 253,
    NET_RECEIVE |-> 254, SOCKET |-> 160, BIND |-> 161, LISTEN |-> 162, ACCEPT |-> 163, CONNECT |-> 164,
    SENDTO |-> 165, RECVFROM |-> 166, CLOSE_SOCK |-> 167, DNS_RESOLVE |-> 168, GETSOCKOPT |-> 169,
    SETSOCKOPT |-> 170, GETPEERNAME |-> 171, GETSOCKNAME |-> 172, FS_SEEK |-> 255, FS_UNLINK |-> 192,
    FS_RENAME |-> 193, FS_MKDIR |-> 194, FS_RMDIR |-> 195, FS_STAT |-> 196, FS_READDIR |-> 197,
    GETDENTS64 |-> 198, FSTAT |-> 199, LSTAT |-> 200, ACCESS |-> 201, CHMOD |-> 204, UMASK |-> 207,
    SYMLINK |-> 202, READLINK |-> 203, CLOCK_GETTIME |-> 62, DUP2 |-> 71, ENV_GET |-> 72, ENV_SET |-> 73,
    CHDIR |-> 205, GETCWD |-> 206, PORT_IN |-> 176, PORT_OUT |-> 177, MMIO_MAP |-> 178, MMIO_UNMAP |-> 179,
    IRQ_WAIT |-> 180, ROUTE_ADD |-> 181, ROUTE_DEL |-> 182, SETPGID |-> 210, GETPGID |-> 211,
    SETSID |-> 212, GETUID |-> 213, GETGID |-> 214, SETUID |-> 215, SETGID |-> 216, SHMGET |-> 217,
    SHMAT |-> 218, SHMDT |-> 219, PIPE |-> 67, READV |-> 224, WRITEV |-> 225, TGKILL |-> 236,
    RT_SIGACTION |-> 237, RT_SIGPROCMASK |-> 238, IOCTL |-> 230, GETRUSAGE |-> 231, PRLIMIT |-> 232,
    DUP3 |-> 78, EPOLL_CREATE |-> 79, EPOLL_CTL |-> 80, EPOLL_WAIT |-> 81, MADVISE |-> 82,
    SYSLOG_DRAIN |-> 226, TIMER_CREATE |-> 227, TIMER_SETTIME |-> 228, TIMER_GETTIME |-> 229, FLOCK |-> 83,
    GETTID |-> 233, SCHED_YIELD |-> 239, GETRANDOM |-> 234, MEMBARRIER |-> 235, MKFIFO |-> 220]
number == [
    CHANNEL_CREATE |-> 1, CHANNEL_SEND |-> 2, CHANNEL_RECEIVE |-> 3, CHANNEL_CALL |-> 4,
    CHANNEL_REPLY |-> 5, HANDLE_CLOSE |-> 16, HANDLE_DUPLICATE |-> 17, HANDLE_TRANSFER |-> 18,
    PROCESS_CREATE |-> 48, PROCESS_START |-> 49, PROCESS_EXIT |-> 50, PROCESS_WAIT |-> 51, BRK |-> 52,
    MMAP |-> 53, MUNMAP |-> 54, MPROTECT |-> 75, GETPID |-> 55, GETPPID |-> 56, LIST_TASKS |-> 61,
    CLOCK_GETTIME |-> 62, THREAD_CREATE |-> 64, THREAD_EXIT |-> 65, THREAD_YIELD |-> 66, KILL |-> 68,
    SIGNAL |-> 69, CONSOLE_WRITE |-> 240, SLEEP |-> 241, EVENT_CREATE |-> 242, CONSOLE_READ |-> 244,
    EVENT_SIGNAL |-> 243, EVENT_WAIT |-> 251, EVENT_DESTROY |-> 252, FS_OPEN |-> 247, FS_READ |-> 248,
    FS_WRITE |-> 249, FS_CLOSE |-> 250, FS_SEEK |-> 255, FS_UNLINK |-> 192, FS_RENAME |-> 193,
    FS_MKDIR |-> 194, FS_RMDIR |-> 195, FS_STAT |-> 196, FS_READDIR |-> 197, NET_SEND |-> 253,
    NET_RECEIVE |-> 254, SOCKET |-> 160, BIND |-> 161, LISTEN |-> 162, ACCEPT |-> 163, CONNECT |-> 164,
    SENDTO |-> 165, RECVFROM |-> 166, CLOSE_SOCK |-> 167, DNS_RESOLVE |-> 168, GETSOCKOPT |-> 169,
    SETSOCKOPT |-> 170, PORT_IN |-> 176, PORT_OUT |-> 177, MMIO_MAP |-> 178, MMIO_UNMAP |-> 179,
    IRQ_WAIT |-> 180, ENDPOINT_REGISTER |-> 245, ENDPOINT_DISCOVER |-> 246, FS_PIPE |-> 67, DUP2 |-> 71,
    ENV_GET |-> 72, ENV_SET |-> 73, CHDIR |-> 205, GETCWD |-> 206, FS_FLOCK |-> 83, FS_MKFIFO |-> 220,
    FSTAT |-> 199, LSTAT |-> 200, ACCESS |-> 201, SYMLINK |-> 202, READLINK |-> 203, CHMOD |-> 204,
    UMASK |-> 207, GETUID |-> 213, GETGID |-> 214, SETUID |-> 215, SETGID |-> 216, SHMGET |-> 217,
    SHMAT |-> 218, SHMDT |-> 219, GETPEERNAME |-> 171, GETSOCKNAME |-> 172, READV |-> 224, WRITEV |-> 225,
    IOCTL |-> 230, GETRUSAGE |-> 231, PRLIMIT |-> 232, GETTID |-> 233, GETRANDOM |-> 234,
    MEMBARRIER |-> 235, SCHED_YIELD |-> 239, TIMER_CREATE |-> 227, TIMER_SETTIME |-> 228,
    TIMER_GETTIME |-> 229, DUP3 |-> 78, EPOLL_CREATE |-> 79, EPOLL_CTL |-> 80, EPOLL_WAIT |-> 81,
    MADVISE |-> 82, GETDENTS64 |-> 198, SYSLOG_DRAIN |-> 226]

(* ------------------------------------------------- the wrappers of the SDK *)
sdk_channel == {<<"CHANNEL_CREATE", 0>>, <<"CHANNEL_SEND", 3>>, <<"CHANNEL_RECEIVE", 3>>, <<"CHANNEL_CALL", 5>>,
    <<"CHANNEL_REPLY", 3>>}
sdk_process == {<<"PROCESS_CREATE", 3>>, <<"PROCESS_START", 3>>, <<"PROCESS_EXIT", 1>>, <<"PROCESS_WAIT", 2>>,
    <<"GETPID", 0>>, <<"GETPPID", 0>>, <<"GETUID", 0>>, <<"GETGID", 0>>, <<"SETUID", 1>>, <<"SETGID", 1>>,
    <<"GETTID", 0>>, <<"LIST_TASKS", 2>>}
sdk_console == {<<"CONSOLE_WRITE", 2>>, <<"CONSOLE_READ", 3>>}
sdk_handle == {<<"HANDLE_CLOSE", 1>>, <<"HANDLE_DUPLICATE", 2>>, <<"HANDLE_TRANSFER", 2>>}
sdk_thread == {<<"THREAD_CREATE", 2>>, <<"THREAD_YIELD", 0>>, <<"THREAD_EXIT", 0>>}
sdk_memory == {<<"BRK", 1>>, <<"MMAP", 3>>, <<"MUNMAP", 2>>, <<"MPROTECT", 3>>}
sdk_event == {<<"EVENT_CREATE", 0>>, <<"EVENT_SIGNAL", 1>>, <<"EVENT_WAIT", 1>>, <<"EVENT_DESTROY", 1>>}
sdk_signal == {<<"KILL", 2>>, <<"SIGNAL", 2>>}
sdk_net == {<<"NET_SEND", 2>>, <<"NET_RECEIVE", 2>>}
sdk_fs_descriptors == {<<"FS_OPEN", 3>>, <<"FS_READ", 3>>, <<"FS_WRITE", 3>>, <<"FS_SEEK", 3>>, <<"FS_CLOSE", 1>>,
    <<"DUP2", 2>>}
sdk_fs_paths == {<<"FS_UNLINK", 2>>, <<"FS_RENAME", 4>>, <<"FS_MKDIR", 3>>, <<"FS_RMDIR", 2>>, <<"FS_STAT", 3>>,
    <<"FS_PIPE", 1>>, <<"FS_FLOCK", 2>>, <<"FS_MKFIFO", 2>>}
sdk_fs_status == {<<"FS_STAT", 3>>, <<"FSTAT", 2>>, <<"LSTAT", 3>>, <<"ACCESS", 3>>, <<"SYMLINK", 4>>, <<"READLINK", 4>>,
    <<"CHMOD", 3>>, <<"UMASK", 1>>, <<"FS_READDIR", 3>>, <<"GETDENTS64", 3>>}
sdk_shm == {<<"SHMGET", 3>>, <<"SHMAT", 3>>, <<"SHMDT", 1>>}
sdk_socket == {<<"SOCKET", 1>>, <<"BIND", 2>>, <<"LISTEN", 1>>, <<"ACCEPT", 1>>, <<"CONNECT", 3>>, <<"SENDTO", 3>>,
    <<"RECVFROM", 3>>, <<"CLOSE_SOCK", 1>>}
sdk_socket_options == {<<"SETSOCKOPT", 5>>, <<"GETSOCKOPT", 5>>, <<"GETPEERNAME", 3>>, <<"GETSOCKNAME", 3>>}
sdk_dns_io_resource == {<<"DNS_RESOLVE", 3>>, <<"READV", 3>>, <<"WRITEV", 3>>, <<"GETRUSAGE", 2>>, <<"PRLIMIT", 4>>}
sdk_misc == {<<"IOCTL", 3>>, <<"GETRANDOM", 2>>, <<"MEMBARRIER", 1>>, <<"MADVISE", 3>>, <<"SCHED_YIELD", 0>>,
    <<"TIMER_CREATE", 2>>, <<"TIMER_SETTIME", 3>>, <<"TIMER_GETTIME", 2>>, <<"SYSLOG_DRAIN", 2>>,
    <<"DUP3", 3>>, <<"EPOLL_CREATE", 1>>, <<"EPOLL_CTL", 4>>, <<"EPOLL_WAIT", 4>>}
sdk_device == {<<"PORT_IN", 2>>, <<"PORT_OUT", 3>>, <<"MMIO_MAP", 2>>, <<"MMIO_UNMAP", 2>>, <<"IRQ_WAIT", 2>>}
sdk_service_env == {<<"ENDPOINT_REGISTER", 3>>, <<"ENDPOINT_DISCOVER", 2>>, <<"ENV_GET", 4>>, <<"ENV_SET", 4>>,
    <<"CHDIR", 2>>, <<"GETCWD", 2>>}
sdk_time == {<<"SLEEP", 1>>, <<"CLOCK_GETTIME", 2>>}
Wrappers == UNION {
    sdk_channel, sdk_process, sdk_console, sdk_handle, sdk_thread, sdk_memory, sdk_event,
    sdk_signal, sdk_net, sdk_fs_descriptors, sdk_fs_paths, sdk_fs_status, sdk_shm, sdk_socket,
    sdk_socket_options, sdk_dns_io_resource, sdk_misc, sdk_device, sdk_service_env, sdk_time}

(* ------------------------------------------------------------- the kernel *)
\* The arms of handle_syscall_raw in order, with how many arguments each handler takes.
Arms == <<
    <<"CHANNEL_CREATE", 0>>, <<"CHANNEL_SEND", 3>>, <<"CHANNEL_RECEIVE", 3>>, <<"CHANNEL_CALL", 5>>,
    <<"CHANNEL_REPLY", 3>>, <<"HANDLE_CLOSE", 1>>, <<"HANDLE_DUPLICATE", 2>>, <<"HANDLE_TRANSFER", 3>>,
    <<"READV", 3>>, <<"WRITEV", 3>>, <<"PROCESS_CREATE", 3>>, <<"PROCESS_START", 3>>, <<"PROCESS_EXIT", 1>>,
    <<"PROCESS_WAIT", 2>>, <<"BRK", 1>>, <<"MMAP", 5>>, <<"MUNMAP", 2>>, <<"MPROTECT", 3>>,
    <<"CLOCK_GETTIME", 2>>, <<"GETPID", 0>>, <<"GETPPID", 0>>, <<"LIST_TASKS", 2>>, <<"THREAD_CREATE", 3>>,
    <<"THREAD_EXIT", 0>>, <<"THREAD_YIELD", 0>>, <<"PIPE", 1>>, <<"POLL", 3>>, <<"EPOLL_CREATE", 1>>,
    <<"EPOLL_CTL", 4>>, <<"EPOLL_WAIT", 4>>, <<"MADVISE", 3>>, <<"KILL", 2>>, <<"SIGNAL", 2>>,
    <<"SIGRETURN", 1>>, <<"SIGPROCMASK", 3>>, <<"RT_SIGPROCMASK", 3>>, <<"TGKILL", 3>>,
    <<"RT_SIGACTION", 3>>, <<"DUP2", 2>>, <<"DUP3", 3>>, <<"ENV_GET", 4>>, <<"ENV_SET", 4>>, <<"CHDIR", 2>>,
    <<"GETCWD", 2>>, <<"SETPGID", 2>>, <<"GETPGID", 1>>, <<"SETSID", 0>>, <<"GETUID", 0>>, <<"GETGID", 0>>,
    <<"SETUID", 1>>, <<"SETGID", 1>>, <<"CONSOLE_WRITE", 2>>, <<"CONSOLE_READ", 3>>, <<"SLEEP", 1>>,
    <<"EVENT_CREATE", 0>>, <<"EVENT_SIGNAL", 1>>, <<"EVENT_WAIT", 1>>, <<"EVENT_DESTROY", 1>>,
    <<"ENDPOINT_REGISTER", 3>>, <<"ENDPOINT_DISCOVER", 2>>, <<"FS_OPEN", 3>>, <<"FS_READ", 3>>,
    <<"FS_WRITE", 3>>, <<"FS_SEEK", 3>>, <<"FS_CLOSE", 1>>, <<"FS_UNLINK", 2>>, <<"FS_RENAME", 4>>,
    <<"FS_MKDIR", 3>>, <<"FS_RMDIR", 2>>, <<"FS_STAT", 3>>, <<"FS_READDIR", 3>>, <<"GETDENTS64", 3>>,
    <<"FSTAT", 2>>, <<"LSTAT", 3>>, <<"ACCESS", 3>>, <<"SYMLINK", 4>>, <<"READLINK", 4>>, <<"CHMOD", 3>>,
    <<"UMASK", 1>>, <<"MKFIFO", 2>>, <<"NET_SEND", 2>>, <<"NET_RECEIVE", 2>>, <<"SOCKET", 1>>,
    <<"BIND", 3>>, <<"LISTEN", 1>>, <<"ACCEPT", 1>>, <<"CONNECT", 3>>, <<"SENDTO", 5>>, <<"RECVFROM", 3>>,
    <<"CLOSE_SOCK", 1>>, <<"GETPEERNAME", 3>>, <<"GETSOCKNAME", 3>>, <<"DNS_RESOLVE", 3>>,
    <<"GETSOCKOPT", 5>>, <<"SETSOCKOPT", 5>>, <<"PORT_IN", 2>>, <<"PORT_OUT", 3>>, <<"MMIO_MAP", 2>>,
    <<"MMIO_UNMAP", 2>>, <<"IRQ_WAIT", 2>>, <<"ROUTE_ADD", 5>>, <<"ROUTE_DEL", 2>>, <<"SYSLOG_DRAIN", 2>>,
    <<"FLOCK", 2>>, <<"SHMGET", 3>>, <<"SHMAT", 3>>, <<"SHMDT", 1>>, <<"IOCTL", 3>>, <<"GETRUSAGE", 2>>,
    <<"PRLIMIT", 4>>, <<"GETTID", 0>>, <<"SCHED_YIELD", 0>>, <<"GETRANDOM", 2>>, <<"MEMBARRIER", 1>>,
    <<"TIMER_CREATE", 2>>, <<"TIMER_SETTIME", 3>>, <<"TIMER_GETTIME", 2>>, <<"MODULE_LOAD", 5>>,
    <<"MODULE_UNLOAD", 2>>>>
\* The numbers two of the SDK's wrappers call by another name.
KernelName(c) == CASE c = "FS_PIPE" -> "PIPE" [] c = "FS_FLOCK" -> "FLOCK" [] c = "FS_MKFIFO" -> "MKFIFO"
                   [] OTHER -> c

\* raw::syscall0 to raw::syscall5.
RegistersOf == <<"rdi", "rsi", "rdx", "r10", "r8">>
Registers == {"rdi", "rsi", "rdx", "r10", "r8", "r9"}
\* The registers that syscall_entry hands to handle_syscall_raw as arg1 to arg5.
\* Fault: arguments one and two are taken in the other order.
EntryArguments_Swapped == <<"rsi", "rdi", "rdx", "r8", "r9">>
EntryArguments == <<"rdi", "rsi", "rdx", "r8", "r9">>

KernelErrors == <<"InvalidArgument", "NotFound", "PermissionDenied", "OutOfMemory", "Busy", "ChannelClosed",
                  "WouldBlock", "Timeout", "BadPointer", "UnknownSyscall", "NotSupported", "AlreadyExists">>
SdkErrors == <<"InvalidArgument", "NotFound", "PermissionDenied", "OutOfMemory", "Busy", "ChannelClosed",
               "WouldBlock", "Timeout", "BadPointer", "UnknownSyscall">>
\* Error::from_raw and result.
from_raw(code) == IF -code \in DOMAIN SdkErrors THEN SdkErrors[-code] ELSE "Unknown"
result(code) == [ok |-> code >= 0, error |-> IF code >= 0 THEN "none" ELSE from_raw(code), code |-> code]

NoCall == <<"none", 0>>
AbiInit ==
    /\ regs = [r \in Registers |-> <<"left">>] /\ call = NoCall
    /\ handled = <<>> /\ abi_result = <<>>

\* A wrapper puts its arguments into registers; the others keep what they held.
syscall(w) ==
    /\ call = NoCall
    /\ call' = w /\ handled' = <<>> /\ abi_result' = <<>>
    /\ regs' = [r \in Registers |->
                  IF \E i \in 1..w[2] : RegistersOf[i] = r
                  THEN <<"arg", CHOOSE i \in 1..w[2] : RegistersOf[i] = r>> ELSE <<"left">>]
handle_syscall_raw ==
    /\ call # NoCall /\ handled = <<>>
    /\ LET n == number[call[1]]
           arm == SelectInSeq(Arms, LAMBDA a : SYS[a[1]] = n)
       IN handled' = IF arm = 0 THEN [name |-> "none", args |-> <<>>]
                     ELSE [name |-> Arms[arm][1],
                           args |-> [i \in 1..Arms[arm][2] |-> regs[EntryArguments[i]]]]
    /\ UNCHANGED <<regs, call, abi_result>>
\* The handler answers with a number or an error; the wrapper decodes it.
Return(code) ==
    /\ call # NoCall /\ handled # <<>>
    /\ handled.name = "none" => code = -10
    /\ abi_result' = result(code) /\ call' = NoCall
    /\ UNCHANGED <<regs, handled>>
AbiNext ==
    \/ \E w \in Wrappers : syscall(w)
    \/ handle_syscall_raw
    \/ \E code \in -Len(KernelErrors)..1 : Return(code)

(* ------------------------------------------------------------ properties *)
\* Every wrapper of the SDK reaches the handler it is named for with its first
\* three arguments in their places, whatever the registers held before, and an
\* error of the kernel is never taken for an answer or for another error.
CallsUnderstood ==
    /\ handled # <<>> /\ call # NoCall =>
          /\ handled.name = KernelName(call[1])
          /\ \A i \in 1..3 : i \in DOMAIN handled.args /\ i <= call[2] => handled.args[i] = <<"arg", i>>
    /\ abi_result # <<>> =>
          /\ abi_result.ok <=> abi_result.code >= 0
          /\ ~abi_result.ok => abi_result.error \in {KernelErrors[-abi_result.code], "Unknown"}

\* Every argument of a call arrives in its place (INTERFACE.md: the fourth in
\* r10, the fifth in r8).
ArgumentsArrive ==
    handled # <<>> /\ call # NoCall => \A i \in 1..call[2] :
        i \in DOMAIN handled.args => handled.args[i] = <<"arg", i>>
=============================================================================
