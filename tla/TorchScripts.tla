----------------------------- MODULE TorchScripts ----------------------------
(* The PyTorch scripts under byteps/example, each as the order of the steps   *)
(* by which a worker meets the others or touches a disk.  TrainingJob says    *)
(* what the steps do.                                                         *)
EXTENDS Sequences

\* What a script is unless it says otherwise.
Script ==
    [setup |-> <<>>,                    \* before the loop over the epochs
     before |-> <<>>, each |-> <<>>,    \* before and after the update of a batch
     epoch |-> <<"train">>,             \* one epoch
     finish |-> <<>>,                   \* after the loop
     data |-> "sampler",                \* how the data is divided
     optimizer |-> "stateful",          \* "decay": it also decays the weights
     optimizer_with_model |-> TRUE,     \* one checkpoint holds both
     schedule |-> "fixed",              \* who sets the learning rate
     accumulates |-> FALSE,             \* several batches make one update
     by_step |-> FALSE]                 \* checkpoints are named by global_step

\* train_imagenet_resnet50_byteps.py; nobody tells the others the epoch to resume from.
resnet50_init == <<"init", "seed">>
resnet50_find == <<"find">>
resnet50_data == "sampler"
resnet50_optimizer == "decay"
resnet50_adjust == "position"
resnet50_restore == <<"load_root">>
resnet50_broadcast == <<"bcast_params", "init_state", "bcast_state">>
resnet50_train == <<"train">>
resnet50_validate == <<"evaluate">>
resnet50_save == <<"save_root">>
resnet50 ==
    [Script EXCEPT !.data = resnet50_data, !.optimizer = resnet50_optimizer, !.schedule = resnet50_adjust,
        !.setup = resnet50_init \o resnet50_find \o resnet50_restore \o resnet50_broadcast \o <<"from_epoch">>,
        !.epoch = resnet50_train \o resnet50_validate \o resnet50_save]

\* train_imagenet_vgg16_byteps.py: the broadcasts are commented out.
vgg16_init == <<"init", "seed">>
vgg16_find == <<"find">>
vgg16_data == "sampler"
vgg16_optimizer == "decay"
vgg16_adjust == "position"
vgg16_restore == <<"load_root">>
vgg16_train == <<"train">>
vgg16_validate == <<"evaluate">>
vgg16_save == <<"save_root">>
vgg16 ==
    [Script EXCEPT !.data = vgg16_data, !.optimizer = vgg16_optimizer, !.schedule = vgg16_adjust,
        !.setup = vgg16_init \o vgg16_find \o vgg16_restore \o <<"from_epoch">>,
        !.epoch = vgg16_train \o vgg16_validate \o vgg16_save]

\* train_imagenet_resnet_byteps_ddp.py: DDP broadcasts the parameters when it is made,
\* and the buffers in every forward pass.
ddp_init == <<"init">>
ddp_model == <<"bcast_params">>
ddp_restore == <<"find", "load_all">>
ddp_data == "sampler"
ddp_forward == <<"bcast_buffers">>
ddp_train == <<"train">>
ddp_validate == ddp_forward
ddp_save == <<"save_first">>
ddp ==
    [Script EXCEPT !.data = ddp_data, !.optimizer = "decay",
        !.setup = ddp_init \o ddp_model \o ddp_restore \o <<"from_epoch">>, !.before = ddp_forward,
        !.epoch = ddp_train \o ddp_validate \o ddp_save]

\* train_cifar_byteps.py: equal models come from the seed alone.
cifar_init == <<"init", "seed">>
cifar_data == "sampler"
cifar_optimizer == "decay"
cifar_train == <<"train">>
cifar_test == <<"evaluate">>
cifar ==
    [Script EXCEPT !.data = cifar_data, !.optimizer = cifar_optimizer, !.setup = cifar_init,
        !.epoch = cifar_train \o cifar_test]

\* train_cifar_byteps_new.py.
cifar_new_init == <<"init", "seed">>
cifar_new_data == "sampler"
cifar_new_optimizer == "decay"
cifar_new_broadcast == <<"bcast_params", "init_state", "bcast_state">>
cifar_new_train == <<"train">>
cifar_new_test == <<"evaluate">>
cifar_new ==
    [Script EXCEPT !.data = cifar_new_data, !.optimizer = cifar_new_optimizer,
        !.setup = cifar_new_init \o cifar_new_broadcast, !.epoch = cifar_new_train \o cifar_new_test]

\* train_mnist_byteps.py.
mnist_init == <<"init", "seed">>
mnist_data == "sampler"
mnist_optimizer == "stateful"
mnist_broadcast == <<"bcast_params", "init_state", "bcast_state">>
mnist_train == <<"train">>
mnist_test == <<"evaluate">>
mnist ==
    [Script EXCEPT !.data = mnist_data, !.optimizer = mnist_optimizer,
        !.setup = mnist_init \o mnist_broadcast, !.epoch = mnist_train \o mnist_test]

\* mnist-distributed.py: torch's own process group and DDP.
mnist_dist_init == <<"init", "seed">>
mnist_dist_model == <<"bcast_params">>
mnist_dist_data == "sampler"
mnist_dist ==
    [Script EXCEPT !.data = mnist_dist_data, !.optimizer = "stateless", !.before = <<"bcast_buffers">>,
        !.setup = mnist_dist_init \o mnist_dist_model]

\* The synthetic benchmarks: the same number of batches everywhere, and SGD without momentum.
benchmark_init == <<"init">>
benchmark_optimizer == "stateless"
benchmark_broadcast == <<"bcast_params", "init_state", "bcast_state">>
benchmark_data == "whole"
benchmark_step == <<"train">>
benchmark ==
    [Script EXCEPT !.data = benchmark_data, !.optimizer = benchmark_optimizer,
        !.setup = benchmark_init \o benchmark_broadcast, !.epoch = benchmark_step]
benchmark_cb_init == <<"init">>
benchmark_cb_optimizer == "stateless"
benchmark_cb_broadcast == <<"bcast_params", "init_state", "bcast_state">>
benchmark_cb_data == "whole"
benchmark_cb_step == <<"train">>
benchmark_cb ==
    [Script EXCEPT !.data = benchmark_cb_data, !.optimizer = benchmark_cb_optimizer,
        !.setup = benchmark_cb_init \o benchmark_cb_broadcast, !.epoch = benchmark_cb_step]
benchmark_ddp_init == <<"init">>
benchmark_ddp_model == <<"bcast_params">>
benchmark_ddp_broadcast == <<"bcast_params", "init_state", "bcast_state">>
benchmark_ddp_step == <<"train">>
benchmark_ddp ==
    [Script EXCEPT !.data = "whole", !.optimizer = "stateless", !.before = ddp_forward,
        !.setup = benchmark_ddp_init \o benchmark_ddp_model \o benchmark_ddp_broadcast,
        !.epoch = benchmark_ddp_step]
elastic_init == <<"init">>
elastic_optimizer == "stateless"
elastic_broadcast == <<"bcast_params", "init_state", "bcast_state">>
elastic_step == <<"train">>
bps_suspend == <<"suspend">>
bps_resume == <<"init">>
elastic_suspend == bps_suspend \o bps_resume
elastic ==
    [Script EXCEPT !.data = "whole", !.optimizer = elastic_optimizer,
        !.setup = elastic_init \o elastic_broadcast, !.epoch = elastic_step, !.finish = elastic_suspend]

\* transformer_lib_byteps.py: language models; every node's first process saves its state.
lib_init == <<"init">>
lib_find == <<"find">>
lib_seed == <<"seed">>
lib_load == <<"load_all", "download_model">>
lib_cache == <<"download_data">>
lib_data == "sampler"
lib_optimizer == "decay"
lib_broadcast == <<"bcast_params">>
lib_load_opt == <<"load_opt">>
lib_resume == <<"from_step">>
lib_train == <<"train">>
lib_save_model == <<"save_model">>
lib_sorted == <<"rotate">>
lib_save_opt == <<"save_opt">>
lib_export == <<"export">>
lib_evaluate == <<"evaluate">>
lib ==
    [Script EXCEPT !.data = lib_data, !.optimizer = lib_optimizer,
        !.optimizer_with_model = FALSE, !.accumulates = TRUE, !.by_step = TRUE,
        !.setup = lib_init \o lib_find \o lib_seed \o lib_load \o lib_cache
            \o lib_broadcast \o lib_load_opt \o lib_resume,
        !.epoch = lib_train, !.each = lib_save_model \o lib_sorted \o lib_save_opt,
        !.finish = lib_export \o lib_evaluate]

\* transformer_lib_byteps_inwork.py.
inwork_init == <<"init">>
inwork_find == <<"find">>
inwork_seed == <<"seed">>
inwork_load == <<"load_all", "download_model">>
inwork_cache == <<"download_data">>
inwork_data == "sampler"
inwork_optimizer == "decay"
inwork_broadcast == <<"bcast_params">>
inwork_load_opt == <<"load_opt">>
inwork_resume == <<"from_step">>
inwork_train == <<"train">>
inwork_save_model == <<"save_model">>
inwork_sorted == <<"rotate">>
inwork_save_opt == <<"save_opt">>
inwork_export == <<"export">>
inwork_evaluate == <<"evaluate">>
inwork ==
    [Script EXCEPT !.data = inwork_data, !.optimizer = inwork_optimizer,
        !.optimizer_with_model = FALSE, !.accumulates = TRUE, !.by_step = TRUE,
        !.setup = inwork_init \o inwork_find \o inwork_seed \o inwork_load \o inwork_cache
            \o inwork_broadcast \o inwork_load_opt \o inwork_resume,
        !.epoch = inwork_train, !.each = inwork_save_model \o inwork_sorted \o inwork_save_opt,
        !.finish = inwork_export \o inwork_evaluate]

\* temp.py: torch.distributed, with barriers around the downloads.
temp_init == <<"init">>
temp_find == <<"find">>
temp_seed == <<"seed">>
temp_wait == <<"wait_unless_first">>
temp_load == <<"load_all", "download_model">>
temp_go == <<"wait_if_first">>
temp_cache == <<"download_data">>
temp_examples == <<"wait_unless_first">> \o temp_cache \o <<"wait_if_first">>
temp_data == "sampler"
temp_optimizer == "decay"
temp_broadcast == <<"bcast_params">>
temp_load_opt == <<"load_opt">>
temp_resume == <<"from_step">>
temp_train == <<"train">>
temp_save_model == <<"save_model">>
temp_sorted == <<"rotate">>
temp_save_opt == <<"save_opt">>
temp_export == <<"export">>
temp_evaluate == <<"evaluate">>
temp ==
    [Script EXCEPT !.data = temp_data, !.optimizer = temp_optimizer,
        !.optimizer_with_model = FALSE, !.accumulates = TRUE, !.by_step = TRUE,
        !.setup = temp_find \o temp_init \o temp_seed \o temp_wait \o temp_load \o temp_go \o temp_examples
            \o temp_load_opt \o temp_broadcast \o temp_resume,
        !.epoch = temp_train, !.each = temp_save_model \o temp_sorted \o temp_save_opt,
        !.finish = temp_export \o temp_evaluate]

\* rum_lm_finetuning_kevin.py: the same, with the compressor applied in the loop.
kevin_init == <<"init">>
kevin_find == <<"find">>
kevin_seed == <<"seed">>
kevin_wait == <<"wait_unless_first">>
kevin_load == <<"load_all", "download_model">>
kevin_go == <<"wait_if_first">>
kevin_cache == <<"download_data">>
kevin_examples == <<"wait_unless_first">> \o kevin_cache \o <<"wait_if_first">>
kevin_data == "sampler"
kevin_optimizer == "decay"
kevin_broadcast == <<"bcast_params">>
kevin_load_opt == <<"load_opt">>
kevin_resume == <<"from_step">>
kevin_train == <<"train">>
kevin_save_model == <<"save_model">>
kevin_sorted == <<"rotate">>
kevin_save_opt == <<"save_opt">>
kevin_export == <<"export">>
kevin_evaluate == <<"evaluate">>
kevin ==
    [Script EXCEPT !.data = kevin_data, !.optimizer = kevin_optimizer,
        !.optimizer_with_model = FALSE, !.accumulates = TRUE, !.by_step = TRUE,
        !.setup = kevin_find \o kevin_init \o kevin_seed \o kevin_wait \o kevin_load \o kevin_go \o kevin_examples
            \o kevin_load_opt \o kevin_broadcast \o kevin_resume,
        !.epoch = kevin_train, !.each = kevin_save_model \o kevin_sorted \o kevin_save_opt,
        !.finish = kevin_export \o kevin_evaluate]

\* run_lm_finetuning.py: accelerate, which knows of no other process, saves and loads
\* everything on all workers, and the operator names the checkpoint.
accelerate_init == <<"init">>
accelerate_data == "whole"
accelerate_optimizer == "decay"
accelerate_broadcast == <<"bcast_params">>
accelerate_load == <<"given", "load_all">>
accelerate_resume == <<"from_batch">>
accelerate_train == <<"train">>
accelerate_save == <<"save_all">>
accelerate_evaluate == <<"evaluate">>
accelerate_export == <<"export">>
accelerate ==
    [Script EXCEPT !.data = accelerate_data, !.optimizer = accelerate_optimizer,
        !.accumulates = TRUE, !.by_step = TRUE,
        !.setup = accelerate_init \o accelerate_broadcast \o accelerate_load \o accelerate_resume,
        !.epoch = accelerate_train \o accelerate_evaluate, !.each = accelerate_save,
        !.finish = accelerate_export]
==============================================================================
